---- MODULE Spec2Model ----
(***************************************************************************)
(* Model of MycilaDimmer: the Dimmer duty-cycle state machine              *)
(* (src/src/MycilaDimmer.h) and the thyristor phase-control firing engine  *)
(* (src/src/MycilaDimmerThyristor.h / .cpp): registry list, fire timer,    *)
(* zero-cross ISR and alarm ISR.                                           *)
(*                                                                         *)
(* Floats are modelled as exact rationals [n, d] in lowest terms, d > 0;   *)
(* the record with d = 0 is NaN.  The sampled inputs are dyadic, so the    *)
(* float32 sums and products of the code are exact on them.                *)
(***************************************************************************)
EXTENDS Integers, Sequences, FiniteSets, TLC

(***************************************************************************)
(* Bounds of the model                                                     *)
(***************************************************************************)
\* foreground calls made after the start, with the ISRs attached
MaxOps == 2
\* foreground calls made on a dimmer whose interrupts are not attached
MaxCalls == 4

\* two dimmers share the registry, the fire timer and the ISRs
Dimmers == {1, 2}

(***************************************************************************)
(* Program constants                                                       *)
(***************************************************************************)
UINT16_MAX == 65535
PHASE_DELAY_MIN_US == 90
LOW == 0
HIGH == 1
DIMMER_RESOLUTION == 12
FIRING_DELAYS_LEN == 200
FIRING_DELAY_MAX == (2^DIMMER_RESOLUTION) - 1

\* the scale that spreads the levels over the 200 entries instead of the 199
\* intervals between them
FiringDelaysScaleOverLength ==
  FIRING_DELAYS_LEN * (2^(16 - DIMMER_RESOLUTION))

FIRING_DELAYS_SCALE == (FIRING_DELAYS_LEN - 1) * (2^(16 - DIMMER_RESOLUTION))

FiringDelaysDipped ==
  [i \in 1..FIRING_DELAYS_LEN |->
     IF i = 100 THEN 0 ELSE (65535 * (FIRING_DELAYS_LEN - i)) \div (FIRING_DELAYS_LEN - 1)]

FIRING_DELAYS ==
  << 65535, 59511, 57920, 56793, 55889, 55119, 54442, 53832, 53274, 52758,
     52276, 51822, 51392, 50984, 50593, 50219, 49859, 49512, 49177, 48851,
     48536, 48229, 47931, 47639, 47355, 47077, 46805, 46538, 46277, 46020,
     45768, 45521, 45277, 45037, 44801, 44568, 44339, 44113, 43889, 43669,
     43451, 43235, 43022, 42811, 42603, 42396, 42192, 41990, 41789, 41590,
     41393, 41197, 41003, 40811, 40620, 40430, 40242, 40054, 39868, 39684,
     39500, 39318, 39136, 38955, 38776, 38597, 38419, 38243, 38066, 37891,
     37716, 37542, 37369, 37196, 37024, 36853, 36682, 36512, 36342, 36173,
     36004, 35835, 35667, 35499, 35332, 35165, 34998, 34832, 34666, 34500,
     34334, 34169, 34003, 33838, 33673, 33508, 33343, 33179, 33014, 32849,
     32685, 32520, 32355, 32191, 32026, 31861, 31696, 31531, 31365, 31200,
     31034, 30868, 30702, 30536, 30369, 30202, 30035, 29867, 29699, 29530,
     29361, 29192, 29022, 28852, 28681, 28510, 28338, 28165, 27992, 27818,
     27643, 27468, 27291, 27115, 26937, 26758, 26579, 26398, 26216, 26034,
     25850, 25666, 25480, 25292, 25104, 24914, 24723, 24531, 24337, 24141,
     23944, 23745, 23544, 23342, 23138, 22931, 22723, 22512, 22299, 22083,
     21865, 21645, 21421, 21195, 20966, 20733, 20497, 20257, 20013, 19766,
     19514, 19257, 18996, 18729, 18457, 18179, 17895, 17603, 17305, 16998,
     16683, 16357, 16022, 15675, 15315, 14941, 14550, 14142, 13712, 13258,
     12776, 12260, 11702, 11092, 10415, 9645, 8741, 7614, 6023, 0 >>

(***************************************************************************)
(* float arithmetic on the sampled values                                  *)
(***************************************************************************)
RECURSIVE GCD(_, _)
GCD(a, b) ==
  IF b = 0 THEN a ELSE GCD(b, a % b)

Abs(i) ==
  IF i < 0 THEN -i ELSE i

R(n, d) ==
  LET g == GCD(Abs(n), d) IN [n |-> n \div g, d |-> d \div g]

NaN == [n |-> 0, d |-> 0]
Zero == [n |-> 0, d |-> 1]
One == [n |-> 1, d |-> 1]

IsNaN(a) ==
  a.d = 0

\* IEEE comparisons: every comparison with NaN is false
Lt(a, b) ==
  /\ ~IsNaN(a)
  /\ ~IsNaN(b)
  /\ a.n * b.d < b.n * a.d

Gt(a, b) ==
  Lt(b, a)

Le(a, b) ==
  /\ ~IsNaN(a)
  /\ ~IsNaN(b)
  /\ a.n * b.d <= b.n * a.d

FEq(a, b) ==
  /\ ~IsNaN(a)
  /\ ~IsNaN(b)
  /\ a = b

Add(a, b) ==
  IF IsNaN(a) \/ IsNaN(b) THEN NaN ELSE R(a.n * b.d + b.n * a.d, a.d * b.d)

Sub(a, b) ==
  IF IsNaN(a) \/ IsNaN(b) THEN NaN ELSE R(a.n * b.d - b.n * a.d, a.d * b.d)

Mul(a, b) ==
  IF IsNaN(a) \/ IsNaN(b) THEN NaN ELSE R(a.n * b.n, a.d * b.d)

\* conversion of a non-negative float to an unsigned integer truncates
Trunc(a) ==
  a.n \div a.d

(***************************************************************************)
(* Dimmer: static helpers and getters                                      *)
(***************************************************************************)
ContrainHigh(amt, low, high) ==
  IF Gt(amt, high) THEN high ELSE amt

Contrain(amt, low, high) ==
  IF Lt(amt, low) THEN low ELSE (IF Gt(amt, high) THEN high ELSE amt)

LookupFiringDelaySawtooth(dutyCycle, sp) ==
  LET duty  == Trunc(Mul(dutyCycle, R(FIRING_DELAY_MAX, 1)))
      slot  == duty * FIRING_DELAYS_SCALE + (FIRING_DELAYS_SCALE \div 2)
      index == slot \div 65536
      a     == FIRING_DELAYS[index + 1]
      b     == FIRING_DELAYS[index + 2]
      dl    == b + (((a - b) * (slot % 65536)) \div 65536)
  IN  ((dl * sp) \div 65536) % 65536

LookupFiringDelayCoarse(dutyCycle, sp) ==
  LET duty  == Trunc(Mul(dutyCycle, R(FIRING_DELAY_MAX, 1)))
      slot  == duty * FIRING_DELAYS_SCALE + (FIRING_DELAYS_SCALE \div 2)
      index == slot \div 131072
  IN  ((FIRING_DELAYS[index + 1] * sp) \div 65536) % 65536

LookupFiringDelay(dutyCycle, sp) ==
  LET duty  == Trunc(Mul(dutyCycle, R(FIRING_DELAY_MAX, 1)))
      slot  == duty * FIRING_DELAYS_SCALE + (FIRING_DELAYS_SCALE \div 2)
      index == slot \div 65536
      a     == FIRING_DELAYS[index + 1]
      b     == FIRING_DELAYS[index + 2]
      dl    == a - (((a - b) * (slot % 65536)) \div 65536)
  IN  ((dl * sp) \div 65536) % 65536

DutyCycleMapped(min, duty, max) ==
  Add(min, Mul(duty, Sub(max, min)))

FireNoEndpoints(lut, mapped, sp) ==
  IF lut /\ sp > 0 THEN Sub(One, R(LookupFiringDelay(mapped, sp), sp)) ELSE mapped

\* the value setDutyCycle stores in _dutyCycleFire
Fire(lut, mapped, sp) ==
  IF lut
    THEN IF FEq(mapped, Zero) THEN Zero
         ELSE IF FEq(mapped, One) THEN One
         ELSE IF sp > 0 THEN Sub(One, R(LookupFiringDelay(mapped, sp), sp))
         ELSE mapped
    ELSE mapped

(***************************************************************************)
(* Inputs                                                                  *)
(***************************************************************************)
GPIO_NUM_NC == -1

\* duty cycles passed by callers of the firing engine
EngineDuties == {Zero, R(1, 2), R(255, 256), One}

\* duty cycles of the dimmers that are running at the start
StartDuties == {R(1, 2), R(3, 4)}

\* arguments of the setters, in and out of [0, 1]
Floats == {R(-1, 2), Zero, R(1, 4), R(1, 2), R(255, 256), One, R(3, 2)}

\* semi-periods passed to setSemiPeriod (0: unknown, 10000: 50 Hz)
SemiPeriods == {0, 10000}

\* delayUntilZero reported by the pulse analyzer
DelaysUntilZero == {0, 200}

\* microseconds an ISR spends in its list walk (lock wait included)
Elapsed == {0, 3000}

NoAlarm == -1

VARIABLES
  enabled, online, dutyCycle, dutyCycleFire, dutyCycleLimit, dutyCycleMin,
  dutyCycleMax, powerLUTEnabled, pin, delay, semiPeriod,
  dimmers, fire_timer, count, alarm, gpio,
  pc, cur, ops,
  trace, touched, registered, regBalance, spinlock, uaf, missed, inside, last

dimmerVars == <<enabled, online, dutyCycle, dutyCycleFire, delay>>
configVars == <<dutyCycleLimit, dutyCycleMin, dutyCycleMax, powerLUTEnabled, pin, semiPeriod>>
engineVars == <<dimmers, fire_timer, count, alarm, gpio>>
\* the ISR writes and events recorded, and the alarm ISR invocations that
\* have not returned yet
isrHistory == <<trace, uaf, missed, inside>>
\* the registrations recorded, and the spinlock that guards the list
regHistory == <<registered, regBalance, spinlock>>

vars == <<enabled, online, dutyCycle, dutyCycleFire, dutyCycleLimit, dutyCycleMin,
          dutyCycleMax, powerLUTEnabled, pin, delay, semiPeriod,
          dimmers, fire_timer, count, alarm, gpio, pc, cur, ops,
          trace, touched, registered, regBalance, spinlock, uaf, missed, inside, last>>

\* what begin() leaves of a dimmer: its flags, its duty cycle, its latched
\* firing delay and the number of its nodes on the registry list
NoSnap ==
  [enabled |-> FALSE, online |-> FALSE, dutyCycle |-> Zero, dutyCycleFire |-> Zero,
   delay |-> UINT16_MAX, nodes |-> 0]

NoOp ==
  [op |-> "none", d |-> 0, x |-> Zero, ret |-> FALSE, applied |-> FALSE,
   chain |-> FALSE, fire0 |-> Zero, sync0 |-> FALSE, seq |-> 0, snap |-> NoSnap,
   out |-> << >>]

(***************************************************************************)
(* ThyristorDimmer::_apply: the values the call can store in _delay.  The  *)
(* conversion to uint16_t truncates; on a NaN or on a product that does    *)
(* not fit it is undefined: any value, of which three are sampled.         *)
(***************************************************************************)
ThyristorApply(on, sp, fire) ==
  IF ~on \/ sp = 0 \/ FEq(fire, Zero) THEN {UINT16_MAX}
  ELSE IF FEq(fire, One) THEN {0}
  ELSE LET p == Mul(Sub(One, fire), R(sp, 1))
       IN  IF IsNaN(p) \/ Le(p, R(-1, 1)) \/ Le(R(UINT16_MAX + 1, 1), p)
             THEN {0, PHASE_DELAY_MIN_US, UINT16_MAX}
             ELSE IF Lt(p, Zero) THEN {0} ELSE {Trunc(p)}

StartDelay(running, sp, x) ==
  CHOOSE v \in ThyristorApply(running, sp, x) : TRUE

\* registry orders of the dimmers that are running at the start
Injective(s) ==
  \A i, j \in DOMAIN s : i # j => s[i] # s[j]

StartLists ==
  {s \in UNION {[1..n -> Dimmers] : n \in 0..Cardinality(Dimmers)} : Injective(s)}

(***************************************************************************)
(* Initial states: the dimmers as constructed, the semi-period configured; *)
(* a dimmer either has not been begun yet (its pin configured or not), or  *)
(* it has been set up before the interrupts were attached: setPin, begin,  *)
(* setOnline(true), setDutyCycle(x).  `budget` foreground calls follow;    *)
(* the dimmers of `who` are the ones that may be running at the start.     *)
(***************************************************************************)
Start(budget, who) ==
  \E list0 \in StartLists, x0 \in [Dimmers -> StartDuties \cup {Zero}],
     p0 \in [Dimmers -> BOOLEAN], sp0 \in SemiPeriods \ {0} :
    LET run == {list0[i] : i \in 1..Len(list0)}
    IN  /\ run \subseteq who
        /\ \A d \in Dimmers \ who : p0[d]
        /\ \A d \in Dimmers \ run : x0[d] = Zero
        /\ \A d \in run : p0[d] /\ x0[d] \in StartDuties
        /\ enabled = [d \in Dimmers |-> d \in run]
        /\ online = [d \in Dimmers |-> d \in run]
        /\ dutyCycle = x0
        /\ dutyCycleFire = x0
        /\ dutyCycleLimit = [d \in Dimmers |-> One]
        /\ dutyCycleMin = [d \in Dimmers |-> Zero]
        /\ dutyCycleMax = [d \in Dimmers |-> One]
        /\ powerLUTEnabled = [d \in Dimmers |-> FALSE]
        /\ pin = [d \in Dimmers |-> IF p0[d] THEN d ELSE GPIO_NUM_NC]
        /\ delay = [d \in Dimmers |-> StartDelay(d \in run, sp0, x0[d])]
        /\ semiPeriod = sp0
        /\ dimmers = [i \in 1..Len(list0) |-> [dimmer |-> list0[i], alarm_count |-> UINT16_MAX]]
        /\ fire_timer = IF run = {} THEN "null" ELSE "live"
        /\ count = 0
        /\ alarm = NoAlarm
        /\ gpio = [d \in Dimmers |-> LOW]
        /\ pc = "idle"
        /\ cur = 0
        /\ ops = budget
        /\ trace = [d \in Dimmers |-> << >>]
        /\ touched = [d \in Dimmers |-> FALSE]
        /\ registered = [d \in Dimmers |-> d \in run]
        /\ regBalance = Len(list0)
        /\ spinlock = "free"
        /\ uaf = FALSE
        /\ missed = FALSE
        /\ inside = << >>
        /\ last = NoOp

Init ==
  Start(MaxOps, Dimmers)

(***************************************************************************)
(* Dimmer getters                                                          *)
(***************************************************************************)
IsOnlineOf(en, on, lut, sp) ==
  en /\ on /\ (~lut \/ sp > 0)

IsOnline(d) ==
  IsOnlineOf(enabled[d], online[d], powerLUTEnabled[d], semiPeriod)

GetDutyCycleMapped(d) ==
  DutyCycleMapped(dutyCycleMin[d], dutyCycle[d], dutyCycleMax[d])

GetDutyCycleFireStored(d) ==
  dutyCycleFire[d]

GetDutyCycleFire(d) ==
  IF IsOnline(d) THEN dutyCycleFire[d] ELSE Zero

AnyPinValid(p) ==
  TRUE

GPIO_IS_VALID_OUTPUT_GPIO(p) ==
  p >= 0

\* Dimmer::setDutyCycle on dimmer d with the given limit and remap window
\* (the callers have already stored them); en / on are _enabled / _online
SetDutyCycleBody(d, x, lim, mn, mx, en, on) ==
  LET dc     == Contrain(x, Zero, lim)
      mapped == DutyCycleMapped(mn, dc, mx)
      f      == Fire(powerLUTEnabled[d], mapped, semiPeriod)
  IN  /\ dutyCycle' = [dutyCycle EXCEPT ![d] = dc]
      /\ dutyCycleFire' = [dutyCycleFire EXCEPT ![d] = f]
      /\ IF IsOnlineOf(en, on, powerLUTEnabled[d], semiPeriod)
           THEN \E v \in ThyristorApply(on, semiPeriod, f) :
                  delay' = [delay EXCEPT ![d] = v]
           ELSE UNCHANGED delay

\* foreground writes that the ISRs can observe mark the half-cycle of d
Touch(d) ==
  touched' = [touched EXCEPT ![d] = TRUE]

\* record of the foreground call that has just been made; only the calls
\* the properties observe are told apart
Other ==
  last' = [NoOp EXCEPT !.op = "other"]

Done(op, d, x, ret, applied) ==
  last' = [op |-> op, d |-> d, x |-> x, ret |-> ret, applied |-> applied,
           chain |-> FALSE, fire0 |-> Zero, sync0 |-> FALSE, seq |-> 0, snap |-> NoSnap,
           out |-> << >>]

\* record of a begin() or end() that went through: seq counts the calls of
\* a run begin(), end(), begin() made in a row on the same dimmer, and snap
\* is what the first begin() of the run left
Chained(op, d, seq, snap) ==
  last' = [op |-> op, d |-> d, x |-> Zero, ret |-> TRUE, applied |-> FALSE,
           chain |-> FALSE, fire0 |-> Zero, sync0 |-> FALSE, seq |-> seq, snap |-> snap,
           out |-> << >>]

\* a foreground call is taken from the budget of calls when it is entered
Call ==
  /\ pc = "idle"
  /\ ops > 0
  /\ ops' = ops - 1

Step(at) ==
  /\ pc = at
  /\ ops' = ops

DelayTouch(d) ==
  touched' = [touched EXCEPT ![d] = touched[d] \/ delay'[d] # delay[d]]

UnlinkAll(list, d) ==
  << >>

UnlinkNothing(list, d) ==
  list

\* the registry list without the first node of dimmer d
RECURSIVE Unlink(_, _)
Unlink(list, d) ==
  IF list = << >> THEN << >>
  ELSE IF Head(list).dimmer = d THEN Tail(list)
  ELSE <<Head(list)>> \o Unlink(Tail(list), d)

Prepend(list, d) ==
  <<[dimmer |-> d, alarm_count |-> UINT16_MAX]>> \o list

Listed(list) ==
  {list[i].dimmer : i \in 1..Len(list)}

Nodes(list, d) ==
  Cardinality({i \in 1..Len(list) : list[i].dimmer = d})

(***************************************************************************)
(* Foreground calls of the Dimmer base class                               *)
(***************************************************************************)
SetDutyCycle(d, x) ==
  /\ Call
  /\ SetDutyCycleBody(d, x, dutyCycleLimit[d], dutyCycleMin[d], dutyCycleMax[d],
                      enabled[d], online[d])
  /\ DelayTouch(d)
  /\ Done("setDutyCycle", d, x, IsOnline(d) /\ enabled[d], IsOnline(d))
  /\ UNCHANGED <<enabled, online, configVars, engineVars, pc, cur, isrHistory, regHistory>>

SetDutyCycleLimit(d, limit) ==
  /\ Call
  /\ LET l == Contrain(limit, Zero, One)
     IN  /\ dutyCycleLimit' = [dutyCycleLimit EXCEPT ![d] = l]
         /\ IF Gt(dutyCycle[d], l)
              THEN SetDutyCycleBody(d, l, l, dutyCycleMin[d], dutyCycleMax[d],
                                    enabled[d], online[d])
              ELSE UNCHANGED <<dutyCycle, dutyCycleFire, delay>>
  /\ DelayTouch(d)
  /\ Other
  /\ UNCHANGED <<enabled, online, dutyCycleMin, dutyCycleMax, powerLUTEnabled, pin,
                 semiPeriod, engineVars, pc, cur, isrHistory, regHistory>>

SetDutyCycleMin(d, min) ==
  /\ Call
  /\ LET m == Contrain(min, Zero, dutyCycleMax[d])
     IN  /\ dutyCycleMin' = [dutyCycleMin EXCEPT ![d] = m]
         /\ SetDutyCycleBody(d, dutyCycle[d], dutyCycleLimit[d], m, dutyCycleMax[d],
                             enabled[d], online[d])
  /\ DelayTouch(d)
  /\ Other
  /\ UNCHANGED <<enabled, online, dutyCycleLimit, dutyCycleMax, powerLUTEnabled, pin,
                 semiPeriod, engineVars, pc, cur, isrHistory, regHistory>>

SetDutyCycleMax(d, max) ==
  /\ Call
  /\ LET m == Contrain(max, dutyCycleMin[d], One)
     IN  /\ dutyCycleMax' = [dutyCycleMax EXCEPT ![d] = m]
         /\ SetDutyCycleBody(d, dutyCycle[d], dutyCycleLimit[d], dutyCycleMin[d], m,
                             enabled[d], online[d])
  /\ DelayTouch(d)
  /\ Other
  /\ UNCHANGED <<enabled, online, dutyCycleLimit, dutyCycleMin, powerLUTEnabled, pin,
                 semiPeriod, engineVars, pc, cur, isrHistory, regHistory>>

On(d) ==
  SetDutyCycle(d, One)

Off(d) ==
  SetDutyCycle(d, Zero)

EnablePowerLUT(d, enable) ==
  /\ Call
  /\ powerLUTEnabled' = [powerLUTEnabled EXCEPT ![d] = enable]
  /\ Other
  /\ UNCHANGED <<dimmerVars, dutyCycleLimit, dutyCycleMin, dutyCycleMax, pin, semiPeriod,
                 engineVars, pc, cur, isrHistory, touched, regHistory>>

SetSemiPeriod(sp) ==
  /\ Call
  /\ semiPeriod' = sp
  /\ Other
  /\ UNCHANGED <<dimmerVars, dutyCycleLimit, dutyCycleMin, dutyCycleMax, powerLUTEnabled,
                 pin, engineVars, pc, cur, isrHistory, touched, regHistory>>

(***************************************************************************)
(* Dimmer::setOnline: the flag is stored, then the backend is applied      *)
(***************************************************************************)
SetOnline(d, on) ==
  /\ Call
  /\ online' = [online EXCEPT ![d] = on]
  /\ dutyCycleFire' = [dutyCycleFire EXCEPT ![d] = IF on THEN @ ELSE Zero]
  /\ LET chained == on /\ last.op = "setOnline" /\ last.d = d /\ last.x = Zero
     IN  last' = [op |-> "setOnline", d |-> d, x |-> IF on THEN One ELSE Zero,
                  ret |-> FALSE, applied |-> FALSE, chain |-> chained,
                  fire0 |-> IF chained THEN last.fire0 ELSE dutyCycleFire[d],
                  sync0 |-> IF chained THEN last.sync0
                            ELSE dutyCycleFire[d] =
                                   Fire(powerLUTEnabled[d], GetDutyCycleMapped(d), semiPeriod),
                  seq |-> 0, snap |-> NoSnap, out |-> << >>]
  /\ pc' = "online_apply"
  /\ cur' = d
  /\ UNCHANGED <<enabled, dutyCycle, delay, configVars, engineVars, isrHistory, touched,
                 regHistory>>

SetOnlineApply ==
  /\ Step("online_apply")
  /\ IF ~online[cur]
       THEN /\ IF enabled[cur]
                 THEN \E v \in ThyristorApply(online[cur], semiPeriod, dutyCycleFire[cur]) :
                        delay' = [delay EXCEPT ![cur] = v]
                 ELSE UNCHANGED delay
            /\ UNCHANGED <<dutyCycle, dutyCycleFire>>
       ELSE SetDutyCycleBody(cur, dutyCycle[cur], dutyCycleLimit[cur], dutyCycleMin[cur],
                             dutyCycleMax[cur], enabled[cur], online[cur])
  /\ DelayTouch(cur)
  /\ pc' = "idle"
  /\ cur' = 0
  /\ UNCHANGED <<enabled, online, configVars, engineVars, isrHistory, regHistory, last>>

(***************************************************************************)
(* ThyristorDimmer::begin                                                  *)
(***************************************************************************)
BeginAlways(d) ==
  /\ Call
  /\ IF ~GPIO_IS_VALID_OUTPUT_GPIO(pin[d])
       THEN /\ Done("begin", d, Zero, FALSE, FALSE)
            /\ UNCHANGED <<gpio, pc, cur, touched>>
       ELSE /\ gpio' = [gpio EXCEPT ![d] = LOW]
            /\ Touch(d)
            /\ pc' = "begin_timer"
            /\ cur' = d
            /\ UNCHANGED last
  /\ UNCHANGED <<dimmerVars, configVars, dimmers, fire_timer, count, alarm, isrHistory,
                 regHistory>>

Begin(d) ==
  /\ Call
  /\ IF enabled[d]
       THEN /\ Done("begin", d, Zero, TRUE, FALSE)
            /\ UNCHANGED <<gpio, pc, cur, touched>>
       ELSE IF ~GPIO_IS_VALID_OUTPUT_GPIO(pin[d])
         THEN /\ Done("begin", d, Zero, FALSE, FALSE)
              /\ UNCHANGED <<gpio, pc, cur, touched>>
         ELSE /\ gpio' = [gpio EXCEPT ![d] = LOW]
              /\ Touch(d)
              /\ pc' = "begin_timer"
              /\ cur' = d
              /\ UNCHANGED last
  /\ UNCHANGED <<dimmerVars, configVars, dimmers, fire_timer, count, alarm, isrHistory,
                 regHistory>>

\* _registerDimmer: the first dimmer creates and starts the fire timer
RegisterTimer ==
  /\ Step("begin_timer")
  /\ IF dimmers = << >>
       THEN /\ fire_timer' = "live"
            /\ count' = 0
            /\ alarm' = NoAlarm
       ELSE UNCHANGED <<fire_timer, count, alarm>>
  /\ pc' = "begin_insert"
  /\ UNCHANGED <<dimmerVars, configVars, dimmers, gpio, cur, isrHistory, touched,
                 regHistory, last>>

RegisterLockSkipped ==
  /\ Step("begin_insert")
  /\ pc' = "begin_locked"
  /\ UNCHANGED <<dimmerVars, configVars, engineVars, cur, isrHistory, touched,
                 regHistory, last>>

\* _registerDimmer: portENTER_CRITICAL_SAFE(&dimmers_spinlock)
RegisterLock ==
  /\ Step("begin_insert")
  /\ spinlock = "free"
  /\ spinlock' = "held"
  /\ pc' = "begin_locked"
  /\ UNCHANGED <<dimmerVars, configVars, engineVars, cur, isrHistory, touched,
                 registered, regBalance, last>>

\* _registerDimmer: the node is prepended, then the spinlock is released
RegisterInsert ==
  /\ Step("begin_locked")
  /\ spinlock' = "free"
  /\ dimmers' = Prepend(dimmers, cur)
  /\ registered' = [registered EXCEPT ![cur] = TRUE]
  /\ regBalance' = regBalance + 1
  /\ Touch(cur)
  /\ pc' = "begin_replay"
  /\ UNCHANGED <<dimmerVars, configVars, fire_timer, count, alarm, gpio, cur, isrHistory,
                 last>>

\* _enabled = true; setDutyCycle(_dutyCycle); return true
BeginReplay ==
  /\ Step("begin_replay")
  /\ enabled' = [enabled EXCEPT ![cur] = TRUE]
  /\ SetDutyCycleBody(cur, dutyCycle[cur], dutyCycleLimit[cur], dutyCycleMin[cur],
                      dutyCycleMax[cur], TRUE, online[cur])
  /\ DelayTouch(cur)
  /\ IF last.op = "end" /\ last.d = cur /\ last.seq = 2
       THEN Chained("begin", cur, 3, last.snap)
       ELSE Chained("begin", cur, 1,
                    [enabled |-> TRUE, online |-> online[cur],
                     dutyCycle |-> dutyCycle'[cur], dutyCycleFire |-> dutyCycleFire'[cur],
                     delay |-> delay'[cur], nodes |-> Nodes(dimmers, cur)])
  /\ pc' = "idle"
  /\ cur' = 0
  /\ UNCHANGED <<online, configVars, engineVars, isrHistory, regHistory>>

(***************************************************************************)
(* ThyristorDimmer::end                                                    *)
(***************************************************************************)
EndForgetsDuty(d) ==
  /\ Call
  /\ IF ~enabled[d]
       THEN /\ Done("end", d, Zero, FALSE, FALSE)
            /\ UNCHANGED <<enabled, online, dutyCycle, pc, cur>>
       ELSE /\ enabled' = [enabled EXCEPT ![d] = FALSE]
            /\ online' = [online EXCEPT ![d] = FALSE]
            /\ dutyCycle' = [dutyCycle EXCEPT ![d] = Zero]
            /\ pc' = "end_apply"
            /\ cur' = d
            /\ UNCHANGED last
  /\ UNCHANGED <<dutyCycleFire, delay, configVars, engineVars, isrHistory,
                 touched, regHistory>>

End(d) ==
  /\ Call
  /\ IF ~enabled[d]
       THEN /\ Done("end", d, Zero, FALSE, FALSE)
            /\ UNCHANGED <<enabled, online, pc, cur>>
       ELSE /\ enabled' = [enabled EXCEPT ![d] = FALSE]
            /\ online' = [online EXCEPT ![d] = FALSE]
            /\ pc' = "end_apply"
            /\ cur' = d
            /\ UNCHANGED last
  /\ UNCHANGED <<dutyCycle, dutyCycleFire, delay, configVars, engineVars, isrHistory,
                 touched, regHistory>>

EndApplySkipped ==
  /\ Step("end_apply")
  /\ pc' = "end_unlink"
  /\ UNCHANGED <<dimmerVars, configVars, engineVars, cur, isrHistory, touched,
                 regHistory, last>>

EndApply ==
  /\ Step("end_apply")
  /\ \E v \in ThyristorApply(online[cur], semiPeriod, dutyCycleFire[cur]) :
       delay' = [delay EXCEPT ![cur] = v]
  /\ DelayTouch(cur)
  /\ pc' = "end_unlink"
  /\ UNCHANGED <<enabled, online, dutyCycle, dutyCycleFire, configVars, engineVars, cur,
                 isrHistory, regHistory, last>>

\* _unregisterDimmer: portENTER_CRITICAL_SAFE(&dimmers_spinlock)
UnregisterLock ==
  /\ Step("end_unlink")
  /\ spinlock = "free"
  /\ spinlock' = "held"
  /\ pc' = "end_locked"
  /\ UNCHANGED <<dimmerVars, configVars, engineVars, cur, isrHistory, touched,
                 registered, regBalance, last>>

\* _unregisterDimmer: the node is unlinked and freed, then the spinlock is
\* released
UnregisterUnlink ==
  /\ Step("end_locked")
  /\ spinlock' = "free"
  /\ dimmers' = Unlink(dimmers, cur)
  /\ registered' = [registered EXCEPT ![cur] = FALSE]
  /\ regBalance' = regBalance - 1
  /\ Touch(cur)
  /\ pc' = "end_timer"
  /\ UNCHANGED <<dimmerVars, configVars, fire_timer, count, alarm, gpio, cur, isrHistory,
                 last>>

UnregisterTimerKept ==
  /\ Step("end_timer")
  /\ pc' = "end_gpio"
  /\ UNCHANGED <<dimmerVars, configVars, engineVars, cur, isrHistory, touched,
                 regHistory, last>>

\* _unregisterDimmer: stop, disable and delete the timer of an empty list;
\* the handle still holds the deleted timer
UnregisterTimer ==
  /\ Step("end_timer")
  /\ IF dimmers = << >>
       THEN /\ fire_timer' = "deleted"
            /\ alarm' = NoAlarm
            /\ pc' = "end_null"
       ELSE /\ UNCHANGED <<fire_timer, alarm>>
            /\ pc' = "end_gpio"
  /\ UNCHANGED <<dimmerVars, configVars, dimmers, count, gpio, cur, isrHistory, touched,
                 regHistory, last>>

\* _unregisterDimmer: fire_timer = nullptr
UnregisterNull ==
  /\ Step("end_null")
  /\ fire_timer' = "null"
  /\ pc' = "end_gpio"
  /\ UNCHANGED <<dimmerVars, configVars, dimmers, count, alarm, gpio, cur, isrHistory,
                 touched, regHistory, last>>

\* digitalWrite(_pin, LOW)
EndGpio ==
  /\ Step("end_gpio")
  /\ gpio' = [gpio EXCEPT ![cur] = LOW]
  /\ Touch(cur)
  /\ IF last.op = "begin" /\ last.d = cur /\ last.seq = 1
       THEN Chained("end", cur, 2, last.snap)
       ELSE Chained("end", cur, 0, NoSnap)
  /\ pc' = "idle"
  /\ cur' = 0
  /\ UNCHANGED <<dimmerVars, configVars, dimmers, fire_timer, count, alarm, isrHistory,
                 regHistory>>

(***************************************************************************)
(* ISRs.  An ISR runs to completion: each one is a single step, which      *)
(* takes the spinlock for its list walk and releases it before it returns, *)
(* and so cannot be taken while the foreground holds the spinlock.  The    *)
(* fire timer is abstracted to its count at the last ISR and its armed     *)
(* one-shot alarm; a negative count is a count before the wrap to 0.       *)
(***************************************************************************)
Min(S) ==
  CHOOSE m \in S : \A o \in S : m <= o

\* a GPIO write of an ISR: who wrote, the level written and the level
\* before, the online flag at the write, the timer count at the write, the
\* rank in the list of the node the walk was at, and the alarm_count the
\* zero-cross ISR stored in the node or the alarm ISR found in it
Event(by, level, d, g, at, rank, alarm_count) ==
  [by |-> by, level |-> level, was |-> g[d], on |-> online[d], at |-> at,
   rank |-> rank, alarm_count |-> alarm_count]

\* the rank of the first node of dimmer d on the list
RankOf(list, d) ==
  CHOOSE i \in 1..Len(list) :
    list[i].dimmer = d /\ \A j \in 1..(i - 1) : list[j].dimmer # d

\* onZeroCross, per node: the level written and the alarm_count latched
ZCLevelInverted(dl) ==
  IF dl # 0 THEN HIGH ELSE LOW

ZCLevel(dl) ==
  IF dl # 0 THEN LOW ELSE HIGH

ZCLatchAlways(dl) ==
  IF dl < PHASE_DELAY_MIN_US THEN PHASE_DELAY_MIN_US ELSE dl

ZCLatch(dl) ==
  IF dl # 0
    THEN (IF dl < PHASE_DELAY_MIN_US THEN PHASE_DELAY_MIN_US ELSE dl)
    ELSE UINT16_MAX

ZCWalkStale(list) ==
  list

ZCWalk(list) ==
  [i \in 1..Len(list) |-> [list[i] EXCEPT !.alarm_count = ZCLatch(delay[list[i].dimmer])]]

ZCGpio(list) ==
  [d \in Dimmers |-> IF d \in Listed(list) THEN ZCLevel(delay[d]) ELSE gpio[d]]

ZCTrace(list) ==
  [d \in Dimmers |->
     IF d \in Listed(list)
       THEN <<Event("zc", ZCLevel(delay[d]), d, gpio, 0, RankOf(list, d),
                    ZCLatch(delay[d]))>>
       ELSE << >>]

\* the walk with the minimum tracking left out: the alarm_count of the last
\* node that has a delay is carried out
ZCNextAlarmLast(list) ==
  LET S == {j \in 1..Len(list) : delay[list[j].dimmer] # 0}
  IN  IF S = {} THEN UINT16_MAX
      ELSE ZCLatch(delay[list[CHOOSE j \in S : \A k \in S : k <= j].dimmer])

ZCNextAlarm(list) ==
  Min({UINT16_MAX} \cup
      {ZCLatch(delay[list[i].dimmer]) :
         i \in {j \in 1..Len(list) : delay[list[j].dimmer] # 0}})

\* _fireTimerISR: the do-while loop, entered with the timer count `now`;
\* every refresh of the count reads `lat` microseconds more; `now` of the
\* result is the last count read and `passes` the number of iterations
Due(n, now) ==
  n.alarm_count # UINT16_MAX /\ n.alarm_count <= now

RECURSIVE FireLoopLatestFirst(_, _, _, _, _)
FireLoopLatestFirst(list, g, tr, now, lat) ==
  LET due   == {j \in 1..Len(list) : Due(list[j], now)}
      pick  == {j \in due : \A k \in due : list[k].alarm_count <= list[j].alarm_count}
      fired == {list[i].dimmer : i \in pick}
      list2 == [i \in 1..Len(list) |->
                  IF i \in pick THEN [list[i] EXCEPT !.alarm_count = UINT16_MAX] ELSE list[i]]
      g2    == [d \in Dimmers |-> IF d \in fired THEN HIGH ELSE g[d]]
      tr2   == [d \in Dimmers |->
                  IF d \in fired
                    THEN LET i == CHOOSE j \in pick : list[j].dimmer = d
                         IN  Append(tr[d], Event("alarm", HIGH, d, g, now, i,
                                                 list[i].alarm_count))
                    ELSE tr[d]]
      next  == Min({UINT16_MAX} \cup
                   {list2[i].alarm_count : i \in 1..Len(list2)})
      now2  == now + lat
  IN  IF next # UINT16_MAX /\ next <= now2
        THEN [FireLoopLatestFirst(list2, g2, tr2, now2, lat) EXCEPT !.passes = @ + 1]
        ELSE [list |-> list2, gpio |-> g2, trace |-> tr2, next |-> next, now |-> now2,
              passes |-> 1]

\* the loop going once more round on the count read before the refresh: an
\* iteration that fires nothing before every further one
RECURSIVE FireLoopStaleCount(_, _, _, _, _)
FireLoopStaleCount(list, g, tr, now, lat) ==
  LET fired == {list[i].dimmer : i \in {j \in 1..Len(list) : Due(list[j], now)}}
      list2 == [i \in 1..Len(list) |->
                  IF Due(list[i], now)
                    THEN [list[i] EXCEPT !.alarm_count = UINT16_MAX]
                    ELSE list[i]]
      g2    == [d \in Dimmers |-> IF d \in fired THEN HIGH ELSE g[d]]
      tr2   == [d \in Dimmers |->
                  IF d \in fired
                    THEN LET i == CHOOSE j \in 1..Len(list) :
                                    list[j].dimmer = d /\ Due(list[j], now)
                         IN  Append(tr[d], Event("alarm", HIGH, d, g, now, i,
                                                 list[i].alarm_count))
                    ELSE tr[d]]
      next  == Min({UINT16_MAX} \cup
                   {list2[i].alarm_count : i \in 1..Len(list2)})
      now2  == now + lat
  IN  IF next # UINT16_MAX /\ next <= now2
        THEN [FireLoopStaleCount(list2, g2, tr2, now2, lat) EXCEPT !.passes = @ + 2]
        ELSE [list |-> list2, gpio |-> g2, trace |-> tr2, next |-> next, now |-> now2,
              passes |-> 1]

RECURSIVE FireLoop(_, _, _, _, _)
FireLoop(list, g, tr, now, lat) ==
  LET fired == {list[i].dimmer : i \in {j \in 1..Len(list) : Due(list[j], now)}}
      list2 == [i \in 1..Len(list) |->
                  IF Due(list[i], now)
                    THEN [list[i] EXCEPT !.alarm_count = UINT16_MAX]
                    ELSE list[i]]
      g2    == [d \in Dimmers |-> IF d \in fired THEN HIGH ELSE g[d]]
      tr2   == [d \in Dimmers |->
                  IF d \in fired
                    THEN LET i == CHOOSE j \in 1..Len(list) :
                                    list[j].dimmer = d /\ Due(list[j], now)
                         IN  Append(tr[d], Event("alarm", HIGH, d, g, now, i,
                                                 list[i].alarm_count))
                    ELSE tr[d]]
      next  == Min({UINT16_MAX} \cup
                   {list2[i].alarm_count : i \in 1..Len(list2)})
      now2  == now + lat
  IN  IF next # UINT16_MAX /\ next <= now2
        THEN [FireLoop(list2, g2, tr2, now2, lat) EXCEPT !.passes = @ + 1]
        ELSE [list |-> list2, gpio |-> g2, trace |-> tr2, next |-> next, now |-> now2,
              passes |-> 1]

\* the count is only compared with the armed alarm (the interrupt is
\* raised when the count reaches it): it is kept as 0 while the alarm is
\* ahead or none is armed, and as the alarm plus one once it is passed
TimerCount(c, a) ==
  IF a = NoAlarm \/ c <= a THEN 0 ELSE a + 1

\* the alarm interrupt, leaving the alarm that raised it armed when no node
\* is left to fire
FireTimerISRRearmed(e) ==
  /\ spinlock = "free"
  /\ fire_timer = "live"
  /\ alarm # NoAlarm
  /\ count <= alarm
  /\ LET r == FireLoop(dimmers, gpio, trace, alarm + e, e)
     IN  /\ dimmers' = r.list
         /\ gpio' = r.gpio
         /\ trace' = r.trace
         /\ alarm' = IF r.next # UINT16_MAX THEN r.next ELSE alarm
         /\ count' = TimerCount(r.now, alarm')
  /\ UNCHANGED <<dimmerVars, configVars, fire_timer, pc, cur, ops, touched, uaf, missed,
                 inside, regHistory, last>>

\* the alarm interrupt: the count has reached the armed one-shot alarm
FireTimerISR(e) ==
  /\ spinlock = "free"
  /\ fire_timer = "live"
  /\ alarm # NoAlarm
  /\ count <= alarm
  /\ LET r == FireLoop(dimmers, gpio, trace, alarm + e, e)
     IN  /\ dimmers' = r.list
         /\ gpio' = r.gpio
         /\ trace' = r.trace
         /\ alarm' = IF r.next # UINT16_MAX THEN r.next ELSE NoAlarm
         /\ count' = TimerCount(r.now, alarm')
  /\ UNCHANGED <<dimmerVars, configVars, fire_timer, pc, cur, ops, touched, uaf, missed,
                 inside, regHistory, last>>

\* ThyristorDimmer::onZeroCross; e is the time the list walk takes
OnZeroCross(dz, e) ==
  /\ spinlock = "free"
  /\ touched' = [d \in Dimmers |-> FALSE]
  /\ missed' = (fire_timer = "live" /\ e >= dz /\ e - dz > ZCNextAlarm(dimmers))
  /\ inside' = inside
  /\ IF fire_timer # "live"
       THEN \* set_raw_count fails on the null handle; on the handle of a
            \* deleted timer the access is a use after free
            /\ uaf' = (uaf \/ fire_timer = "deleted")
            /\ trace' = [d \in Dimmers |-> << >>]
            /\ UNCHANGED engineVars
       ELSE LET list1 == ZCWalk(dimmers)
                gpio1 == ZCGpio(dimmers)
                tr1   == ZCTrace(dimmers)
                next  == ZCNextAlarm(dimmers)
            IN  /\ uaf' = uaf
                /\ fire_timer' = fire_timer
                /\ IF e >= dz
                     THEN IF e - dz <= next
                            THEN \* the zero crossing is passed but no alarm is missed:
                                 \* direct call of the alarm ISR
                                 LET r == FireLoop(list1, gpio1, tr1, e - dz, e)
                                 IN  /\ dimmers' = r.list
                                     /\ gpio' = r.gpio
                                     /\ trace' = r.trace
                                     /\ alarm' = IF r.next # UINT16_MAX THEN r.next ELSE alarm
                                     /\ count' = TimerCount(r.now, alarm')
                            ELSE \* too late: nothing is armed for this half-cycle
                                 /\ dimmers' = list1
                                 /\ gpio' = gpio1
                                 /\ trace' = tr1
                                 /\ alarm' = alarm
                                 /\ count' = TimerCount(e, alarm')
                     ELSE \* zero crossing not reached yet
                          /\ dimmers' = list1
                          /\ gpio' = gpio1
                          /\ trace' = tr1
                          /\ count' = TimerCount(e - dz, next)
                          /\ alarm' = next
  /\ UNCHANGED <<dimmerVars, configVars, pc, cur, ops, regHistory, last>>

(***************************************************************************)
(* Specifications                                                          *)
(***************************************************************************)
Foreground ==
  \/ \E d \in Dimmers, x \in EngineDuties : SetDutyCycle(d, x)
  \/ \E d \in Dimmers, on \in BOOLEAN : SetOnline(d, on)
  \/ SetOnlineApply
  \/ \E d \in Dimmers : Begin(d)
  \/ RegisterTimer
  \/ RegisterLock
  \/ RegisterInsert
  \/ BeginReplay
  \/ \E d \in Dimmers : End(d)
  \/ EndApply
  \/ UnregisterLock
  \/ UnregisterUnlink
  \/ UnregisterTimer
  \/ UnregisterNull
  \/ EndGpio

Next ==
  \/ Foreground
  \/ \E dz \in DelaysUntilZero, e \in Elapsed : OnZeroCross(dz, e)
  \/ \E e \in Elapsed : FireTimerISR(e)

Spec == Init /\ [][Next]_vars

(***************************************************************************)
(* The duty-cycle state machine of one dimmer while no interrupt is        *)
(* delivered: every setter of the base class, with arguments in and out of *)
(* range.                                                                  *)
(***************************************************************************)
Subject ==
  CHOOSE d \in Dimmers : \A o \in Dimmers : d <= o

InitDuty ==
  Start(MaxCalls, {Subject})

Lifecycle ==
  \/ Begin(Subject)
  \/ RegisterTimer
  \/ RegisterLock
  \/ RegisterInsert
  \/ BeginReplay
  \/ End(Subject)
  \/ EndApply
  \/ UnregisterLock
  \/ UnregisterUnlink
  \/ UnregisterTimer
  \/ UnregisterNull
  \/ EndGpio

Setters(args) ==
  \/ \E x \in args : SetDutyCycle(Subject, x)
  \/ \E x \in args : SetDutyCycleLimit(Subject, x)
  \/ \E x \in args : SetDutyCycleMin(Subject, x)
  \/ \E x \in args : SetDutyCycleMax(Subject, x)
  \/ On(Subject)
  \/ Off(Subject)
  \/ \E on \in BOOLEAN : SetOnline(Subject, on)
  \/ SetOnlineApply

NextDuty ==
  \/ Setters(Floats)
  \/ \E enable \in BOOLEAN : EnablePowerLUT(Subject, enable)
  \/ \E sp \in SemiPeriods : SetSemiPeriod(sp)
  \/ Lifecycle

SpecDuty == InitDuty /\ [][NextDuty]_vars

\* the calls with arbitrary float arguments, NaN included
NextArgs ==
  \/ Setters(Floats \cup {NaN})
  \/ Lifecycle

SpecArgs == InitDuty /\ [][NextArgs]_vars

(***************************************************************************)
(* The firing engine under a periodic zero-cross stream handled on the     *)
(* normal path: the zero-cross ISR is entered delayUntilZero before every  *)
(* zero crossing, one semi-period after the previous entry, and finishes   *)
(* its list walk before the crossing; the timer reads 0 at the crossing.   *)
(* An alarm interrupt comes before the next zero-cross ISR exactly when    *)
(* its count is reached before that entry.                                 *)
(***************************************************************************)
\* duty cycles giving delays below PHASE_DELAY_MIN_US, in the middle of the
\* half-cycle, and within delayUntilZero of its end
PeriodicDuties == {R(1, 64), R(1, 2), R(255, 256)}

\* the timer has counted up to the entry of the next zero-cross ISR
HalfCycleOver(dz) ==
  alarm = NoAlarm \/ alarm > semiPeriod - dz

PeriodicZeroCross(dz, e) ==
  /\ e < dz
  /\ HalfCycleOver(dz)
  /\ OnZeroCross(dz, e)

PeriodicAlarm(dz, e) ==
  /\ ~HalfCycleOver(dz)
  /\ FireTimerISR(e)

NextPeriodic ==
  \/ \E d \in Dimmers, x \in PeriodicDuties : SetDutyCycle(d, x)
  \/ \E dz \in DelaysUntilZero, e \in Elapsed : PeriodicZeroCross(dz, e)
  \/ \E dz \in DelaysUntilZero \ {0} : PeriodicAlarm(dz, 0)

SpecPeriodic == Init /\ [][NextPeriodic]_vars

(***************************************************************************)
(* The alarm ISR as two steps, for the runs in which the zero-cross ISR    *)
(* (another interrupt source, which calls _fireTimerISR itself) runs while *)
(* an alarm ISR invocation has left its critical section and has not       *)
(* returned yet.  `inside` holds the alarm count that invocation is about  *)
(* to arm.                                                                 *)
(***************************************************************************)
\* _fireTimerISR up to the end of its do-while loop
AlarmEnter(e) ==
  /\ spinlock = "free"
  /\ fire_timer = "live"
  /\ alarm # NoAlarm
  /\ count <= alarm
  /\ inside = << >>
  /\ LET r == FireLoop(dimmers, gpio, trace, alarm + e, e)
     IN  /\ dimmers' = r.list
         /\ gpio' = r.gpio
         /\ trace' = r.trace
         /\ inside' = <<r.next>>
  /\ alarm' = NoAlarm
  /\ count' = TimerCount(count, alarm')
  /\ UNCHANGED <<dimmerVars, configVars, fire_timer, pc, cur, ops, touched, uaf, missed,
                 regHistory, last>>

\* _fireTimerISR from the end of the loop: the next alarm is armed
AlarmReturn ==
  /\ inside # << >>
  /\ alarm' = IF Head(inside) # UINT16_MAX THEN Head(inside) ELSE alarm
  /\ count' = TimerCount(count, alarm')
  /\ inside' = << >>
  /\ UNCHANGED <<dimmerVars, configVars, dimmers, fire_timer, gpio, pc, cur, ops, trace,
                 touched, uaf, missed, regHistory, last>>

NextReentry ==
  \/ \E d \in Dimmers, x \in EngineDuties : SetDutyCycle(d, x)
  \/ \E dz \in DelaysUntilZero, e \in Elapsed : OnZeroCross(dz, e)
  \/ \E e \in Elapsed : AlarmEnter(e)
  \/ AlarmReturn

SpecReentry == Init /\ [][NextReentry]_vars

(***************************************************************************)
(* The firing ratio as a function of the duty cycle: one running dimmer    *)
(* with a fixed LUT flag, remap window and semi-period, whose duty cycle   *)
(* is raised through the 12-bit levels k / FIRING_DELAY_MAX one by one.    *)
(***************************************************************************)
\* remap windows set with setDutyCycleMin and setDutyCycleMax
CurveMins == {Zero, R(1, 4)}
CurveMaxs == {R(1, 2), One}

InitCurve ==
  \E lut \in BOOLEAN, mn \in CurveMins, mx \in CurveMaxs, sp \in SemiPeriods :
    LET f0 == Fire(lut, DutyCycleMapped(mn, Zero, mx), sp)
    IN  /\ enabled = [d \in Dimmers |-> d = Subject]
        /\ online = [d \in Dimmers |-> d = Subject]
        /\ dutyCycle = [d \in Dimmers |-> Zero]
        /\ dutyCycleFire = [d \in Dimmers |-> IF d = Subject THEN f0 ELSE Zero]
        /\ dutyCycleLimit = [d \in Dimmers |-> One]
        /\ dutyCycleMin = [d \in Dimmers |-> IF d = Subject THEN mn ELSE Zero]
        /\ dutyCycleMax = [d \in Dimmers |-> IF d = Subject THEN mx ELSE One]
        /\ powerLUTEnabled = [d \in Dimmers |-> d = Subject /\ lut]
        /\ pin = [d \in Dimmers |-> d]
        /\ delay = [d \in Dimmers |->
                      IF d = Subject /\ IsOnlineOf(TRUE, TRUE, lut, sp)
                        THEN StartDelay(TRUE, sp, f0)
                        ELSE UINT16_MAX]
        /\ semiPeriod = sp
        /\ dimmers = <<[dimmer |-> Subject, alarm_count |-> UINT16_MAX]>>
        /\ fire_timer = "live"
        /\ count = 0
        /\ alarm = NoAlarm
        /\ gpio = [d \in Dimmers |-> LOW]
        /\ pc = "idle"
        /\ cur = 0
        /\ ops = FIRING_DELAY_MAX
        /\ trace = [d \in Dimmers |-> << >>]
        /\ touched = [d \in Dimmers |-> FALSE]
        /\ registered = [d \in Dimmers |-> d = Subject]
        /\ regBalance = Len(dimmers)
        /\ spinlock = "free"
        /\ uaf = FALSE
        /\ missed = FALSE
        /\ inside = << >>
        /\ last = NoOp

\* the 12-bit level of the duty cycle of the dimmer
Level ==
  Trunc(Mul(dutyCycle[Subject], R(FIRING_DELAY_MAX, 1)))

NextLevel ==
  SetDutyCycle(Subject, R(Level + 1, FIRING_DELAY_MAX))

SpecCurve == InitCurve /\ [][NextLevel]_vars

(***************************************************************************)
(* Metrics: Dimmer::calculateHarmonics and calculateMetrics.  Both read    *)
(* fields of the base class only, so the call is modelled on the dimmer    *)
(* whatever backend class it is an object of; the backend decides which    *)
(* override runs.  Results are returned in the record of the call.         *)
(***************************************************************************)
\* the classes of dimmers, by their type() name
Backends == {"virtual", "thyristor", "pwm", "dfrobot", "cycle-stealing"}

\* the classes whose overrides use the phase-control formulas
PhaseControlBackends == {"thyristor", "pwm", "dfrobot"}

\* duty cycles passed to setDutyCycle before the metrics are asked for
MetricDuties == {Zero, R(1, 1024), R(1, 2), One}

\* grid voltages and load resistances passed to calculateMetrics
GridVoltages == {R(-230, 1), Zero, R(230, 1)}
LoadResistances == {Zero, R(50, 1)}

\* number of entries of the array passed to calculateHarmonics
MaxHarmonics == 3

\* what the caller's array holds before the call
Unwritten == R(-1, 1)

\* the magnitude of the harmonic of the given order as the closed form gives
\* it: it is not evaluated, and is a symbol distinct from every number
Harmonic(order) ==
  [n |-> order, d |-> -1]

Quot(a, b) ==
  IF IsNaN(a) \/ IsNaN(b) \/ b.n = 0 THEN NaN ELSE R(a.n * b.d, a.d * b.n)

\* the largest r in lo..hi with r * r <= x
RECURSIVE ISqrtIn(_, _, _)
ISqrtIn(x, lo, hi) ==
  IF lo = hi THEN lo
  ELSE LET mid == (lo + hi + 1) \div 2
       IN  IF mid * mid <= x THEN ISqrtIn(x, mid, hi) ELSE ISqrtIn(x, lo, mid - 1)

ISqrt(x) ==
  ISqrtIn(x, 0, 46340)

\* std::sqrt of a non-negative value: exact where the root is rational,
\* truncated to a multiple of 1/1024 otherwise
Sqrt(a) ==
  LET rn == ISqrt(a.n)
      rd == ISqrt(a.d)
  IN  IF rn * rn = a.n /\ rd * rd = a.d
        THEN R(rn, rd)
        ELSE R(ISqrt((a.n * 1048576) \div a.d), 1024)

\* a default-constructed Metrics
DefaultMetrics ==
  [voltage |-> Zero, current |-> Zero, power |-> Zero, apparentPower |-> Zero,
   powerFactor |-> NaN, thdi |-> NaN]

FullPowerMetrics(gridVoltage, loadResistance) ==
  [voltage |-> gridVoltage, current |-> Quot(gridVoltage, loadResistance),
   power |-> Quot(Mul(gridVoltage, gridVoltage), loadResistance),
   apparentPower |-> Quot(Mul(gridVoltage, gridVoltage), loadResistance),
   powerFactor |-> One, thdi |-> Zero]

\* what the caller's Metrics holds before the call: nothing yet, or the
\* result of an earlier call made at full power
PriorMetrics ==
  {DefaultMetrics, FullPowerMetrics(R(230, 1), R(50, 1))}

CalculateMetricsClearing(metrics, dutyCycleFire_, gridVoltage, loadResistance) ==
  IF Gt(loadResistance, Zero) /\ Gt(gridVoltage, Zero)
    THEN [ret |-> TRUE,
          metrics |-> IF Le(One, dutyCycleFire_)
                        THEN FullPowerMetrics(gridVoltage, loadResistance)
                        ELSE DefaultMetrics]
    ELSE [ret |-> FALSE, metrics |-> DefaultMetrics]

CalculatePhaseControlMetrics(metrics, dutyCycleFire_, gridVoltage, loadResistance) ==
  IF Gt(loadResistance, Zero) /\ Gt(gridVoltage, Zero)
    THEN IF Gt(dutyCycleFire_, Zero)
           THEN LET nominalPower == Quot(Mul(gridVoltage, gridVoltage), loadResistance)
                IN  IF Le(One, dutyCycleFire_)
                      THEN [ret |-> TRUE,
                            metrics |-> FullPowerMetrics(gridVoltage, loadResistance)]
                      ELSE LET pf == Sqrt(dutyCycleFire_)
                               vo == Mul(pf, gridVoltage)
                               cu == Quot(vo, loadResistance)
                           IN  [ret |-> TRUE,
                                metrics |->
                                  [powerFactor |-> pf,
                                   thdi |-> Mul(R(100, 1),
                                                Sqrt(Sub(Quot(One, dutyCycleFire_), One))),
                                   power |-> Mul(dutyCycleFire_, nominalPower),
                                   voltage |-> vo,
                                   current |-> cu,
                                   apparentPower |-> Mul(gridVoltage, cu)]]
           ELSE [ret |-> TRUE, metrics |-> DefaultMetrics]
    ELSE [ret |-> FALSE, metrics |-> metrics]

\* calculateMetrics of each class on dimmer d
CalculateMetricsOf(b, d, metrics, gridVoltage, loadResistance) ==
  IF b \in PhaseControlBackends
    THEN IF enabled[d]
           THEN CalculatePhaseControlMetrics(metrics, dutyCycleFire[d], gridVoltage,
                                             loadResistance)
           ELSE [ret |-> FALSE, metrics |-> metrics]
    ELSE IF b = "cycle-stealing"
           THEN [ret |-> enabled[d], metrics |-> metrics]
           ELSE [ret |-> FALSE, metrics |-> metrics]

CalculateMetrics(d, b, metrics, gridVoltage, loadResistance) ==
  /\ Call
  /\ LET r == CalculateMetricsOf(b, d, metrics, gridVoltage, loadResistance)
     IN  last' = [NoOp EXCEPT !.op = "calculateMetrics", !.d = d, !.ret = r.ret,
                              !.out = [backend |-> b, gridVoltage |-> gridVoltage,
                                       loadResistance |-> loadResistance,
                                       before |-> metrics, after |-> r.metrics]]
  /\ UNCHANGED <<dimmerVars, configVars, engineVars, pc, cur, isrHistory, touched,
                 regHistory>>

\* the outcomes of the test i1_rms <= 0.001 of the phase-control formulas:
\* it holds up to a firing ratio of 0.004236; between 1/256 and 1/128 the
\* float evaluation is not followed and both outcomes are taken
I1RmsTooSmall(dutyCycleFire_) ==
  IF Le(dutyCycleFire_, R(1, 256)) THEN {TRUE}
  ELSE IF Le(R(1, 128), dutyCycleFire_) THEN {FALSE}
  ELSE BOOLEAN

CalculateHarmonicsNoAnchor(dutyCycleFire_, array, n, tooSmall) ==
  [ret |-> ~tooSmall, array |-> array]

CalculatePhaseControlHarmonics(dutyCycleFire_, array, n, tooSmall) ==
  IF tooSmall
    THEN [ret |-> FALSE, array |-> array]
    ELSE [ret |-> TRUE,
          array |-> [i \in 1..n |-> IF i = 1 THEN R(100, 1) ELSE Harmonic(2 * i - 1)]]

\* _calculateHarmonics of each class
CalculateHarmonicsOf(b, dutyCycleFire_, array, n, tooSmall) ==
  IF b \in PhaseControlBackends
    THEN CalculatePhaseControlHarmonics(dutyCycleFire_, array, n, tooSmall)
    ELSE [ret |-> TRUE, array |-> [i \in 1..n |-> Zero]]

CalculateHarmonics(d, b, n) ==
  /\ Call
  /\ \E tooSmall \in I1RmsTooSmall(dutyCycleFire[d]) :
       LET array == [i \in 1..n |-> Unwritten]
           r == IF n = 0
                  THEN [ret |-> FALSE, array |-> array]
                ELSE IF ~IsOnline(d) \/ Le(dutyCycleFire[d], Zero)
                  THEN [ret |-> TRUE, array |-> [i \in 1..n |-> Zero]]
                ELSE IF Le(One, dutyCycleFire[d])
                  THEN [ret |-> TRUE,
                        array |-> [i \in 1..n |-> IF i = 1 THEN R(100, 1) ELSE Zero]]
                ELSE CalculateHarmonicsOf(b, dutyCycleFire[d], [i \in 1..n |-> NaN], n,
                                          tooSmall)
       IN  last' = [NoOp EXCEPT !.op = "calculateHarmonics", !.d = d, !.ret = r.ret,
                                !.out = [backend |-> b, n |-> n, before |-> array,
                                         after |-> r.array]]
  /\ UNCHANGED <<dimmerVars, configVars, engineVars, pc, cur, isrHistory, touched,
                 regHistory>>

NextMetrics ==
  \/ \E x \in MetricDuties : SetDutyCycle(Subject, x)
  \/ \E on \in BOOLEAN : SetOnline(Subject, on)
  \/ SetOnlineApply
  \/ Lifecycle
  \/ \E b \in Backends, n \in 0..MaxHarmonics : CalculateHarmonics(Subject, b, n)
  \/ \E b \in Backends, m \in PriorMetrics, v \in GridVoltages, r \in LoadResistances :
       CalculateMetrics(Subject, b, m, v, r)

SpecMetrics == InitDuty /\ [][NextMetrics]_vars

(***************************************************************************)
(* The backends without zero-crossing: PWMDimmer writes its duty to an     *)
(* LEDC channel, DFRobotDimmer sends it to a DAC.  The first dimmer is a   *)
(* PWMDimmer and the other a DFRobotDimmer; each write of _apply is        *)
(* returned in the record of the call that made it.                        *)
(***************************************************************************)
MYCILA_DIMMER_PWM_RESOLUTION == 12

OutputBackend(d) ==
  IF d = Subject THEN "pwm" ELSE "dfrobot"

\* DFRobotDimmer::getResolution for the three SKUs and for an unknown one
DFRobotResolutions == {15, 12, 0}

Resolutions(d) ==
  IF OutputBackend(d) = "pwm" THEN {MYCILA_DIMMER_PWM_RESOLUTION} ELSE DFRobotResolutions

\* duty cycles passed to setDutyCycle of these dimmers
OutputDuties == {Zero, R(1, 4), R(1, 2), R(3, 4), One}

\* PWMDimmer::_apply: the duty passed to ledcWrite (a uint32_t, which the
\* product fits whatever the resolution, the firing ratio being at most 1)
PWMApply(on, fire, resolution) ==
  IF ~on THEN 0 ELSE Trunc(Mul(fire, R(2 ^ resolution - 1, 1)))

\* DFRobotDimmer::_apply: the duty passed to _sendDutyCycle
DFRobotApply(on, fire, resolution) ==
  IF ~on THEN 0 ELSE Trunc(Mul(fire, R(2 ^ resolution - 1, 1))) % 65536

ApplyOf(d, on, fire, resolution) ==
  IF OutputBackend(d) = "pwm"
    THEN PWMApply(on, fire, resolution)
    ELSE DFRobotApply(on, fire, resolution)

\* the record of a call whose _apply wrote duty while _online was on and
\* _dutyCycleFire was fire; ok is what the driver answered
Wrote(op, d, x, on, fire, resolution, ok) ==
  last' = [NoOp EXCEPT !.op = op, !.d = d, !.x = x, !.ret = ok, !.applied = TRUE,
                       !.out = [backend |-> OutputBackend(d), resolution |-> resolution,
                                online |-> on, fire |-> fire,
                                duty |-> ApplyOf(d, on, fire, resolution),
                                ok |-> ok]]

\* Dimmer::setDutyCycle of a PWMDimmer or a DFRobotDimmer
OutputSetDutyCycleBody(op, d, x, en, on, resolution, ok) ==
  LET dc     == Contrain(x, Zero, dutyCycleLimit[d])
      mapped == DutyCycleMapped(dutyCycleMin[d], dc, dutyCycleMax[d])
      f      == Fire(powerLUTEnabled[d], mapped, semiPeriod)
  IN  /\ dutyCycle' = [dutyCycle EXCEPT ![d] = dc]
      /\ dutyCycleFire' = [dutyCycleFire EXCEPT ![d] = f]
      /\ IF IsOnlineOf(en, on, powerLUTEnabled[d], semiPeriod)
           THEN Wrote(op, d, x, on, f, resolution, ok)
           ELSE last' = [NoOp EXCEPT !.op = op, !.d = d, !.x = x]

OutputSetDutyCycle(d, x, resolution, ok) ==
  /\ Call
  /\ OutputSetDutyCycleBody("setDutyCycle", d, x, enabled[d], online[d], resolution, ok)
  /\ UNCHANGED <<enabled, online, delay, configVars, engineVars, pc, cur, isrHistory,
                 touched, regHistory>>

OutputSetOnline(d, on, resolution, ok) ==
  /\ Call
  /\ online' = [online EXCEPT ![d] = on]
  /\ IF ~on
       THEN /\ dutyCycleFire' = [dutyCycleFire EXCEPT ![d] = Zero]
            /\ IF enabled[d]
                 THEN Wrote("setOnline", d, Zero, on, Zero, resolution, ok)
                 ELSE last' = [NoOp EXCEPT !.op = "setOnline", !.d = d]
            /\ UNCHANGED dutyCycle
       ELSE OutputSetDutyCycleBody("setOnline", d, dutyCycle[d], enabled[d], on, resolution,
                                   ok)
  /\ UNCHANGED <<enabled, delay, configVars, engineVars, pc, cur, isrHistory, touched,
                 regHistory>>

\* PWMDimmer::begin; attached is the outcome of ledcAttach && ledcWrite(0)
PWMBegin(d, attached, ok) ==
  /\ Call
  /\ OutputBackend(d) = "pwm"
  /\ IF enabled[d] \/ ~GPIO_IS_VALID_OUTPUT_GPIO(pin[d])
       THEN /\ last' = [NoOp EXCEPT !.op = "begin", !.d = d]
            /\ UNCHANGED <<enabled, dutyCycle, dutyCycleFire>>
       ELSE IF ~attached
       THEN /\ last' = [NoOp EXCEPT !.op = "begin", !.d = d,
                                    !.out = [backend |-> "pwm", attached |-> FALSE]]
            /\ UNCHANGED <<enabled, dutyCycle, dutyCycleFire>>
       ELSE /\ enabled' = [enabled EXCEPT ![d] = TRUE]
            /\ OutputSetDutyCycleBody("begin", d, dutyCycle[d], TRUE, online[d],
                                      MYCILA_DIMMER_PWM_RESOLUTION, ok)
  /\ UNCHANGED <<online, delay, configVars, engineVars, pc, cur, isrHistory, touched,
                 regHistory>>

\* PWMDimmer::end
PWMEnd(d, ok) ==
  /\ Call
  /\ OutputBackend(d) = "pwm"
  /\ IF ~enabled[d]
       THEN /\ last' = [NoOp EXCEPT !.op = "end", !.d = d]
            /\ UNCHANGED <<enabled, online>>
       ELSE /\ enabled' = [enabled EXCEPT ![d] = FALSE]
            /\ online' = [online EXCEPT ![d] = FALSE]
            /\ Wrote("end", d, Zero, FALSE, dutyCycleFire[d],
                     MYCILA_DIMMER_PWM_RESOLUTION, ok)
  /\ UNCHANGED <<dutyCycle, dutyCycleFire, delay, configVars, engineVars, pc, cur,
                 isrHistory, touched, regHistory>>

InitOutput ==
  Start(MaxCalls, Dimmers)

NextOutput ==
  \/ \E d \in Dimmers, x \in OutputDuties, ok \in BOOLEAN :
       \E res \in Resolutions(d) : OutputSetDutyCycle(d, x, res, ok)
  \/ \E d \in Dimmers, on \in BOOLEAN, ok \in BOOLEAN :
       \E res \in Resolutions(d) : OutputSetOnline(d, on, res, ok)
  \/ \E attached \in BOOLEAN, ok \in BOOLEAN : PWMBegin(Subject, attached, ok)
  \/ \E ok \in BOOLEAN : PWMEnd(Subject, ok)

SpecOutput == InitOutput /\ [][NextOutput]_vars

(***************************************************************************)
(* CycleStealingDimmer: the alarm fires once per half-cycle and its ISR    *)
(* decides for each registered dimmer whether the half-cycle conducts.     *)
(* A node of the registry list holds the dimmer and its window counters;   *)
(* the foreground calls are taken as a whole between two interrupts.  The  *)
(* decisions of a dimmer are recorded with the duty the ISR read; one      *)
(* invocation of the ISR is one half-cycle.                                *)
(***************************************************************************)
window_size == 20

\* half-cycles followed
MaxHalfCycles == 30

\* duty cycles passed to setDutyCycle of a cycle-stealing dimmer
StealingDuties == {Zero, R(1, 10), R(11, 20), One}

\* static uint16_t alarm_set: 0, or the period the alarm is set to
alarm_set == alarm

\* the alarm_count of the periodic alarm action set on the fire timer, 0 when
\* the timer has none (the running count of the timer is not used here)
timer_alarm == count

\* new RegisteredDimmer()
NewRegisteredDimmer(d) ==
  [dimmer |-> d, semi_period_counter |-> 0, semi_period_on_count |-> 0,
   semi_period_odd |-> FALSE]

\* the body of the loop of _fireTimerISR on one node: the node it leaves
\* and the level it writes, dutyCycle being getDutyCycleFire() of the dimmer
FireNode(node, duty) ==
  IF Le(One, duty)
    THEN [node |-> [node EXCEPT !.semi_period_odd = ~@], level |-> HIGH]
  ELSE IF Le(duty, Zero)
    THEN [node |-> [node EXCEPT !.semi_period_odd = ~@], level |-> LOW]
  ELSE
    LET target_on_count == Trunc(Add(Mul(duty, R(window_size, 1)), R(1, 2))) % 256
        incremented == (node.semi_period_counter + 1) % 256
        counter == IF incremented >= window_size THEN 0 ELSE incremented
        on_count == IF incremented >= window_size THEN 0 ELSE node.semi_period_on_count
        odd == node.semi_period_odd
        should_conduct ==
          IF target_on_count >= window_size \div 2
            THEN LET target_off_count == (window_size - target_on_count) % 256
                     current_off_count == (counter - on_count) % 256
                 IN  IF current_off_count < target_off_count
                       THEN LET off_ratio == R(target_off_count - current_off_count,
                                               window_size - counter)
                            IN  \/ odd /\ Lt(off_ratio, R(1, 2))
                                \/ ~odd /\ ~Lt(off_ratio, R(1, 2))
                       ELSE TRUE
            ELSE IF on_count < target_on_count
                   THEN LET on_ratio == R(target_on_count - on_count,
                                          window_size - counter)
                        IN  \/ odd /\ ~Lt(on_ratio, R(1, 2))
                            \/ ~odd /\ Lt(on_ratio, R(1, 2))
                   ELSE FALSE
    IN  [node |-> [node EXCEPT
                     !.semi_period_counter = counter,
                     !.semi_period_on_count =
                        IF should_conduct THEN (on_count + 1) % 256 ELSE on_count,
                     !.semi_period_odd = ~odd],
         level |-> IF should_conduct THEN HIGH ELSE LOW]

StealingFireTimerISR ==
  /\ pc = "idle"
  /\ fire_timer = "live"
  /\ timer_alarm > 0
  /\ dimmers # << >>
  /\ \A i \in DOMAIN dimmers : Len(trace[dimmers[i].dimmer]) < MaxHalfCycles
  /\ LET fired == [i \in DOMAIN dimmers |->
                     FireNode(dimmers[i], GetDutyCycleFire(dimmers[i].dimmer))]
     IN  /\ dimmers' = [i \in DOMAIN dimmers |-> fired[i].node]
         /\ gpio' = [d \in Dimmers |->
                       IF \E i \in DOMAIN dimmers : dimmers[i].dimmer = d
                         THEN fired[CHOOSE i \in DOMAIN dimmers : dimmers[i].dimmer = d].level
                         ELSE gpio[d]]
         /\ trace' = [d \in Dimmers |->
                        IF \E i \in DOMAIN dimmers : dimmers[i].dimmer = d
                          THEN Append(trace[d],
                                      [level |-> gpio'[d], on |-> IsOnline(d),
                                       duty |-> GetDutyCycleFire(d)])
                          ELSE trace[d]]
  /\ UNCHANGED <<dimmerVars, configVars, fire_timer, count, alarm, pc, cur, ops, touched,
                 regHistory, uaf, missed, inside, last>>

\* CycleStealingDimmer::_apply on an enabled dimmer: the value it leaves in
\* alarm_set, timer being fire_timer
StealingApply(timer, set, sp) ==
  IF sp = 0 /\ set # 0 THEN 0
  ELSE IF sp > 0 /\ set # sp THEN (IF timer # "null" THEN sp ELSE 0)
  ELSE set

\* the same call: the alarm action it leaves on the timer, armed being the
\* one the timer has
StealingApplyTimer(timer, set, sp, armed) ==
  IF timer = "null" THEN armed
  ELSE IF sp = 0 /\ set # 0 THEN 0
  ELSE IF sp > 0 /\ set # sp THEN sp
  ELSE armed

\* Dimmer::setDutyCycle of a CycleStealingDimmer (en / on: _enabled, _online)
StealingSetDutyCycleBody(d, x, en, on, timer, armed) ==
  LET dc     == Contrain(x, Zero, dutyCycleLimit[d])
      mapped == DutyCycleMapped(dutyCycleMin[d], dc, dutyCycleMax[d])
  IN  /\ dutyCycle' = [dutyCycle EXCEPT ![d] = dc]
      /\ dutyCycleFire' = [dutyCycleFire EXCEPT
                             ![d] = Fire(powerLUTEnabled[d], mapped, semiPeriod)]
      /\ alarm' = IF IsOnlineOf(en, on, powerLUTEnabled[d], semiPeriod)
                    THEN StealingApply(timer, alarm_set, semiPeriod)
                    ELSE alarm_set
      /\ count' = IF IsOnlineOf(en, on, powerLUTEnabled[d], semiPeriod)
                    THEN StealingApplyTimer(timer, alarm_set, semiPeriod, armed)
                    ELSE armed

StealingSetDutyCycle(d, x) ==
  /\ Call
  /\ StealingSetDutyCycleBody(d, x, enabled[d], online[d], fire_timer, timer_alarm)
  /\ Other
  /\ UNCHANGED <<enabled, online, delay, configVars, dimmers, fire_timer, gpio, pc,
                 cur, isrHistory, touched, regHistory>>

StealingSetOnline(d, on) ==
  /\ Call
  /\ online' = [online EXCEPT ![d] = on]
  /\ IF ~on
       THEN /\ dutyCycleFire' = [dutyCycleFire EXCEPT ![d] = Zero]
            /\ alarm' = IF enabled[d]
                          THEN StealingApply(fire_timer, alarm_set, semiPeriod)
                          ELSE alarm_set
            /\ count' = IF enabled[d]
                          THEN StealingApplyTimer(fire_timer, alarm_set, semiPeriod,
                                                  timer_alarm)
                          ELSE timer_alarm
            /\ UNCHANGED dutyCycle
       ELSE StealingSetDutyCycleBody(d, dutyCycle[d], enabled[d], on, fire_timer,
                                     timer_alarm)
  /\ Other
  /\ UNCHANGED <<enabled, delay, configVars, dimmers, fire_timer, gpio, pc, cur,
                 isrHistory, touched, regHistory>>

\* CycleStealingDimmer::begin with _registerDimmer
StealingBegin(d) ==
  /\ Call
  /\ IF enabled[d] \/ ~GPIO_IS_VALID_OUTPUT_GPIO(pin[d])
       THEN UNCHANGED <<enabled, dutyCycle, dutyCycleFire, dimmers, fire_timer, alarm, count,
                        gpio, registered, regBalance>>
       ELSE /\ gpio' = [gpio EXCEPT ![d] = LOW]
            /\ fire_timer' = "live"
            /\ dimmers' = <<NewRegisteredDimmer(d)>> \o dimmers
            /\ registered' = [registered EXCEPT ![d] = TRUE]
            /\ regBalance' = regBalance + 1
            /\ enabled' = [enabled EXCEPT ![d] = TRUE]
            \* a timer created by _registerDimmer has no alarm action
            /\ StealingSetDutyCycleBody(d, dutyCycle[d], TRUE, online[d], "live",
                                        IF fire_timer = "null" THEN 0 ELSE timer_alarm)
  /\ Other
  /\ UNCHANGED <<online, delay, configVars, pc, cur, isrHistory, touched, spinlock>>

\* CycleStealingDimmer::end with _unregisterDimmer
StealingEnd(d) ==
  /\ Call
  /\ IF ~enabled[d]
       THEN UNCHANGED <<enabled, online, dimmers, fire_timer, count, gpio, registered,
                        regBalance>>
       ELSE /\ enabled' = [enabled EXCEPT ![d] = FALSE]
            /\ online' = [online EXCEPT ![d] = FALSE]
            /\ dimmers' = Unlink(dimmers, d)
            /\ registered' = [registered EXCEPT ![d] = FALSE]
            /\ regBalance' = regBalance - 1
            \* the timer is deleted with the last dimmer, its alarm with it;
            \* alarm_set is not written
            /\ fire_timer' = IF dimmers' = << >> THEN "null" ELSE fire_timer
            /\ count' = IF dimmers' = << >> THEN 0 ELSE timer_alarm
            /\ gpio' = [gpio EXCEPT ![d] = LOW]
  /\ Other
  /\ UNCHANGED <<dutyCycle, dutyCycleFire, delay, alarm, configVars, pc, cur,
                 isrHistory, touched, spinlock>>

\* the dimmers as constructed, the semi-period configured, and no timer yet
InitStealing ==
  /\ enabled = [d \in Dimmers |-> FALSE]
  /\ online = [d \in Dimmers |-> FALSE]
  /\ dutyCycle = [d \in Dimmers |-> Zero]
  /\ dutyCycleFire = [d \in Dimmers |-> Zero]
  /\ dutyCycleLimit = [d \in Dimmers |-> One]
  /\ dutyCycleMin = [d \in Dimmers |-> Zero]
  /\ dutyCycleMax = [d \in Dimmers |-> One]
  /\ powerLUTEnabled = [d \in Dimmers |-> FALSE]
  /\ pin = [d \in Dimmers |-> d]
  /\ delay = [d \in Dimmers |-> UINT16_MAX]
  /\ semiPeriod \in SemiPeriods \ {0}
  /\ dimmers = << >>
  /\ fire_timer = "null"
  /\ count = 0
  /\ alarm = 0
  /\ gpio = [d \in Dimmers |-> LOW]
  /\ pc = "idle"
  /\ cur = 0
  /\ ops = MaxCalls
  /\ trace = [d \in Dimmers |-> << >>]
  /\ touched = [d \in Dimmers |-> FALSE]
  /\ registered = [d \in Dimmers |-> FALSE]
  /\ regBalance = 0
  /\ spinlock = "free"
  /\ uaf = FALSE
  /\ missed = FALSE
  /\ inside = << >>
  /\ last = NoOp

NextStealing ==
  \/ StealingBegin(Subject)
  \/ StealingEnd(Subject)
  \/ \E on \in BOOLEAN : StealingSetOnline(Subject, on)
  \/ \E x \in StealingDuties : StealingSetDutyCycle(Subject, x)
  \/ StealingFireTimerISR

SpecStealing == InitStealing /\ [][NextStealing]_vars

(***************************************************************************)
(* Properties                                                              *)
(***************************************************************************)

\* C1: after any sequence of setDutyCycle, setDutyCycleLimit,
\* setDutyCycleMin, setDutyCycleMax, on, off, setOnline, begin and end calls
\* with arbitrary arguments, every dimmer has
\* 0 <= duty_cycle <= duty_cycle_limit <= 1 and
\* 0 <= duty_cycle_min <= duty_cycle_max <= 1.
DutyCycleBounds ==
  \A d \in Dimmers :
    /\ Le(Zero, dutyCycle[d])
    /\ Le(dutyCycle[d], dutyCycleLimit[d])
    /\ Le(dutyCycleLimit[d], One)
    /\ Le(Zero, dutyCycleMin[d])
    /\ Le(dutyCycleMin[d], dutyCycleMax[d])
    /\ Le(dutyCycleMax[d], One)

\* C2: under any interleaving of the foreground calls with the zero-cross
\* ISR and the alarm ISR, whenever the online flag of a dimmer is false,
\* getDutyCycleFire() returns 0 and no ISR drives the GPIO of that dimmer
\* high (every ISR write of HIGH found the flag true).
OfflineNeverHigh ==
  \A d \in Dimmers :
    /\ ~online[d] => GetDutyCycleFire(d) = Zero
    /\ \A i \in DOMAIN trace[d] : trace[d][i].level = HIGH => trace[d][i].on

\* the ISR writes of a dimmer since the last zero crossing that raise its
\* GPIO from LOW to HIGH
Rising(ev) ==
  ev.level = HIGH /\ ev.was = LOW

RisingEdges(d) ==
  {i \in DOMAIN trace[d] : Rising(trace[d][i])}

LoweredByZC(d, i) ==
  \E j \in 1..(i - 1) : trace[d][j].by = "zc" /\ trace[d][j].level = LOW

\* C3 (as stated): in every half-cycle the GPIO of a dimmer gets at most one
\* rising edge, and every rising edge is preceded within that half-cycle by
\* a falling edge emitted by the zero-cross ISR.
OneRisingAfterFalling ==
  \A d \in Dimmers :
    /\ Cardinality(RisingEdges(d)) <= 1
    /\ \A i \in RisingEdges(d) : LoweredByZC(d, i)

\* C3 (amended): in every half-cycle the GPIO of a dimmer gets at most one
\* rising edge; every write of the alarm ISR is preceded within that
\* half-cycle by the zero-cross ISR driving the GPIO low; a HIGH written by
\* the zero-cross ISR itself (delay 0) is the only ISR write of its
\* half-cycle.
OneRisingPerHalfCycle ==
  \A d \in Dimmers :
    /\ Cardinality(RisingEdges(d)) <= 1
    /\ \A i \in DOMAIN trace[d] :
         /\ trace[d][i].by = "alarm" => LoweredByZC(d, i)
         /\ (trace[d][i].by = "zc" /\ trace[d][i].level = HIGH) => Len(trace[d]) = 1

\* C3 witness: a half-cycle in which the zero-cross ISR lowered the GPIO and
\* the alarm ISR then raised it
RisingAfterZCLow ==
  \E d \in Dimmers :
    /\ Len(trace[d]) = 2
    /\ trace[d][1].by = "zc" /\ trace[d][1].level = LOW /\ trace[d][1].was = HIGH
    /\ trace[d][2].by = "alarm" /\ Rising(trace[d][2])

\* the ISR writes (who, level) on the GPIO of d since the last zero crossing
Writes(d) ==
  [i \in DOMAIN trace[d] |-> <<trace[d][i].by, trace[d][i].level>>]

\* d is the only registered dimmer and no foreground write has reached its
\* delay, its pin or its node since the last zero-cross ISR, which wrote it
SingleConstant(d) ==
  /\ Listed(dimmers) = {d}
  /\ ~touched[d]
  /\ trace[d] # << >>

\* the alarm interrupt is still to come in this half-cycle
AlarmPending ==
  fire_timer = "live" /\ alarm # NoAlarm /\ count <= alarm

ListedIffEnabled ==
  \A d \in Dimmers : (d \in Listed(dimmers)) <=> enabled[d]

\* C5 (amended): a dimmer on which no begin() or end() is in progress has a
\* node on the registry list if and only if its enabled flag is true.
ListedIffEnabledBetweenCalls ==
  \A d \in Dimmers :
    (pc = "idle" \/ cur # d) => ((d \in Listed(dimmers)) <=> enabled[d])

\* C5 witness: end() has returned on a dimmer that was enabled, another
\* dimmer is still enabled and listed
EndedBesideEnabled ==
  /\ pc = "idle"
  /\ last.op = "end" /\ last.ret
  /\ ~enabled[last.d] /\ last.d \notin Listed(dimmers)
  /\ \E o \in Dimmers : enabled[o] /\ o \in Listed(dimmers)

\* C6 (as stated): in every reachable state the fire timer exists if and
\* only if the registry list is non-empty.
TimerIffListNonEmpty ==
  (fire_timer = "live") <=> (dimmers # << >>)

\* C6 (amended): the fire timer exists whenever the registry list is
\* non-empty, and while no begin() or end() is in progress it exists only
\* then, the handle being null otherwise.
TimerIffListNonEmptyBetweenCalls ==
  /\ dimmers # << >> => fire_timer = "live"
  /\ pc = "idle" => (IF dimmers = << >> THEN fire_timer = "null" ELSE fire_timer = "live")

\* C6 witness: end() of the last registered dimmer has returned, the timer
\* is gone
LastDimmerEnded ==
  /\ pc = "idle"
  /\ last.op = "end" /\ last.ret
  /\ dimmers = << >>
  /\ fire_timer = "null"

\* the list holds as many nodes as registrations not yet undone, of distinct
\* dimmers, which are the registered ones
RegistryCount ==
  /\ Len(dimmers) = regBalance
  /\ Cardinality(Listed(dimmers)) = Len(dimmers)
  /\ \A d \in Dimmers : d \in Listed(dimmers) <=> registered[d]

\* an ISR adds a GPIO write only for a dimmer whose node is linked
NoWriteAfterUnlink ==
  \A d \in Dimmers :
    (trace'[d] # trace[d] /\ trace'[d] # << >>) => registered[d]

\* C7: the registry list holds one node per registration not yet undone
\* (N - M entries, of distinct dimmers), and every ISR write on a GPIO is
\* made while the node of that dimmer is linked.
RegistryConsistent ==
  []RegistryCount /\ [][NoWriteAfterUnlink]_vars

\* C7 witness: after an unregistration an ISR has written the GPIO of the
\* dimmer that is still registered and not the one of the unlinked dimmer
WriteBesideUnlinked ==
  /\ pc = "idle"
  /\ last.op = "end" /\ last.ret
  /\ ~registered[last.d]
  /\ trace[last.d] = << >>
  /\ \E o \in Dimmers : registered[o] /\ Len(trace[o]) = 2

\* x clamped to [0, limit]
Clamped(x, limit) ==
  IF Lt(x, Zero) THEN Zero ELSE IF Lt(limit, x) THEN limit ELSE x

\* the firing ratio of a mapped duty cycle: the LUT delay as a share of the
\* semi-period when the LUT is enabled, the mapped value otherwise
FireOf(d, mapped) ==
  IF powerLUTEnabled[d] /\ mapped \notin {Zero, One} /\ semiPeriod > 0
    THEN R(semiPeriod - LookupFiringDelay(mapped, semiPeriod), semiPeriod)
    ELSE mapped

\* the firing delay of a firing ratio strictly between 0 and 1, or at an end
DelayOf(f, sp) ==
  IF sp = 0 \/ f = Zero THEN UINT16_MAX
  ELSE IF f = One THEN 0
  ELSE (sp * (f.d - f.n)) \div f.d

\* a step that is a whole setDutyCycle call
IsSetDutyCycle ==
  /\ ops' # ops
  /\ pc' = "idle"
  /\ last'.op = "setDutyCycle"

\* what one setDutyCycle step must do to the dimmer it is called on, and
\* leave alone on the others
SetDutyCycleContract ==
  IsSetDutyCycle =>
    LET d      == last'.d
        dc     == Clamped(last'.x, dutyCycleLimit[d])
        mapped == Add(dutyCycleMin[d], Mul(dc, Sub(dutyCycleMax[d], dutyCycleMin[d])))
    IN  /\ dutyCycle'[d] = dc
        /\ dutyCycleFire'[d] = FireOf(d, mapped)
        /\ last'.applied <=> IsOnline(d)
        /\ IF IsOnline(d)
             THEN delay'[d] = DelayOf(dutyCycleFire'[d], semiPeriod)
             ELSE delay'[d] = delay[d]
        /\ last'.ret <=> (IsOnline(d) /\ enabled[d])
        /\ \A o \in Dimmers \ {d} :
             /\ dutyCycle'[o] = dutyCycle[o]
             /\ dutyCycleFire'[o] = dutyCycleFire[o]
             /\ delay'[o] = delay[o]

\* C8: setDutyCycle(x) stores x clamped to [0, limit], recomputes the firing
\* ratio from mapped = min + duty * (max - min), applies it to the backend
\* (the delay is rewritten) if and only if isOnline(), and returns true
\* exactly when isOnline() and the apply succeeded.
SetDutyCycleStoresAndApplies ==
  [][SetDutyCycleContract]_vars

\* C8 witness: setDutyCycle with an argument above the limit has returned
\* true on an online dimmer: the limit is stored and applied as a delay
ClampedAndApplied ==
  /\ pc = "idle"
  /\ last.op = "setDutyCycle" /\ last.ret
  /\ Lt(dutyCycleLimit[last.d], last.x)
  /\ dutyCycle[last.d] = dutyCycleLimit[last.d]
  /\ delay[last.d] \notin {0, UINT16_MAX}

\* the node of dimmer d on the registry list
NodeOf(d) ==
  dimmers[CHOOSE i \in DOMAIN dimmers : dimmers[i].dimmer = d]

\* the alarm_count the zero-cross ISR latches for a delay
LatchOf(dl) ==
  IF dl = 0 \/ dl = UINT16_MAX THEN UINT16_MAX
  ELSE IF dl < PHASE_DELAY_MIN_US THEN PHASE_DELAY_MIN_US ELSE dl

FiredByAlarm(d) ==
  \E i \in DOMAIN trace[d] : trace[d][i].by = "alarm"

\* the latest foreground call, which has returned, is a setDutyCycle(x) that
\* was applied on d, and a zero-cross ISR has run since the last foreground
\* write on d
LatchedAfterSet(d) ==
  /\ pc = "idle"
  /\ last.op = "setDutyCycle" /\ last.d = d /\ last.applied
  /\ d \in Listed(dimmers)
  /\ ~touched[d]
  /\ trace[d] # << >>

\* the alarm_count that zero-cross ISR has latched is the one derived from
\* that setDutyCycle (or the sentinel again, once the alarm ISR has fired)
LatchFromLatestSet ==
  \A d \in Dimmers :
    LatchedAfterSet(d) =>
      LET dc == Clamped(last.x, dutyCycleLimit[d])
          l  == LatchOf(DelayOf(FireOf(d, GetDutyCycleMapped(d)), semiPeriod))
      IN  /\ dutyCycle[d] = dc
          /\ \/ NodeOf(d).alarm_count = l
             \/ NodeOf(d).alarm_count = UINT16_MAX /\ FiredByAlarm(d)

\* a setDutyCycle step leaves the alarm_count already latched, the armed
\* alarm and the GPIO levels as they are
SetKeepsLatch ==
  IsSetDutyCycle => (dimmers' = dimmers /\ alarm' = alarm /\ gpio' = gpio)

\* C9: a setDutyCycle on an online thyristor dimmer takes effect at the next
\* zero-cross ISR: that ISR latches into alarm_count the delay derived from
\* the latest setDutyCycle, and the call itself leaves the alarm_count
\* already latched for the current half-cycle unchanged.
NextZeroCrossLatchesLatest ==
  []LatchFromLatestSet /\ [][SetKeepsLatch]_vars

\* C9 witness: setDutyCycle has changed the delay of an online dimmer in the
\* middle of a half-cycle: the node still holds the alarm_count latched
\* from the previous delay
LatchOlderThanDelay ==
  \E d \in Dimmers :
    /\ pc = "idle"
    /\ last.op = "setDutyCycle" /\ last.d = d /\ last.applied
    /\ d \in Listed(dimmers)
    /\ touched[d]
    /\ NodeOf(d).alarm_count \notin {UINT16_MAX, LatchOf(delay[d])}

\* setOnline(false) then setOnline(true) have just been called in a row on
\* a dimmer, and the second call has returned
RoundTripDone ==
  /\ pc = "idle"
  /\ last.op = "setOnline"
  /\ last.chain

\* C10 (as stated): from any reachable state, setOnline(false) followed by
\* setOnline(true) restores duty_cycle_fire to the value it had before the
\* two calls.
OnlineRoundTrip ==
  RoundTripDone => dutyCycleFire[last.d] = last.fire0

\* C10 (in-sync case): the round trip does restore duty_cycle_fire when the
\* stored value was the one derived from the current duty cycle, remap
\* window, LUT flag and semi-period; enablePowerLUT, setSemiPeriod and
\* setOnline(false) leave a stored value that is not.
OnlineRoundTripInSync ==
  (RoundTripDone /\ last.sync0) => dutyCycleFire[last.d] = last.fire0

\* C10 (in-sync case) reached: the round trip has restored a firing ratio
\* computed through the LUT
RoundTripRestoredLUT ==
  /\ RoundTripDone
  /\ last.sync0
  /\ powerLUTEnabled[last.d]
  /\ last.fire0 \notin {Zero, One}
  /\ dutyCycleFire[last.d] = last.fire0

\* the state of dimmer d that begin() and end() act on
SnapOf(d) ==
  [enabled |-> enabled[d], online |-> online[d], dutyCycle |-> dutyCycle[d],
   dutyCycleFire |-> dutyCycleFire[d], delay |-> delay[d], nodes |-> Nodes(dimmers, d)]

\* begin(), end(), begin() have just been called in a row on a dimmer that
\* was not enabled, and the last call has returned
BeginEndBeginDone ==
  /\ pc = "idle"
  /\ last.op = "begin"
  /\ last.seq = 3

\* C11 (as stated): for a dimmer with a valid pin and any prior
\* configuration, online set before begin included, the state after begin();
\* end(); begin() equals the state after the first begin(): same enabled,
\* online, duty_cycle, duty_cycle_fire, latched firing delay and registry
\* membership.
BeginEndBegin ==
  BeginEndBeginDone => SnapOf(last.d) = last.snap

\* C11 (amended): the same for a dimmer whose online flag is false before
\* the first begin(); end() clears the flag, so a flag set before begin() is
\* not restored.
BeginEndBeginOffline ==
  (BeginEndBeginDone /\ ~last.snap.online) => SnapOf(last.d) = last.snap

\* C11 witness: the second begin() has replayed a non-zero duty cycle saved
\* before the first one, on a dimmer that was offline
BeginEndBeginReplayed ==
  /\ BeginEndBeginDone
  /\ ~last.snap.online
  /\ last.snap.dutyCycle # Zero
  /\ SnapOf(last.d) = last.snap

\* a begin() that returned at once: on an enabled dimmer, or on an invalid pin
BeginReturnsAtOnce ==
  /\ pc = "idle"
  /\ pc' = "idle"
  /\ ops' # ops
  /\ last'.op = "begin"

\* no dimmer has more than one node on the registry list
NoSecondNode ==
  \A d \in Dimmers : Nodes(dimmers, d) <= 1

\* begin() on an enabled dimmer returns true and leaves the dimmers, their
\* configuration, the list, the timer and the GPIOs as they are
BeginOnEnabledKeeps ==
  (BeginReturnsAtOnce /\ enabled[last'.d]) =>
    /\ last'.ret
    /\ UNCHANGED <<dimmerVars, configVars, engineVars>>

\* C12: begin() is idempotent: on an already enabled dimmer it returns
\* success and changes nothing; it adds no second registry node for the
\* dimmer and touches neither the GPIO nor the timer.
BeginIdempotent ==
  []NoSecondNode /\ [][BeginOnEnabledKeeps]_vars

\* C12 witness: begin() has returned at once on a registered dimmer that is
\* conducting
BegunAgainWhileHigh ==
  /\ pc = "idle"
  /\ last.op = "begin" /\ last.ret /\ last.seq = 0
  /\ Nodes(dimmers, last.d) = 1
  /\ gpio[last.d] = HIGH
  /\ fire_timer = "live"

\* a dimmer whose pin is not a valid output is neither enabled nor listed
InvalidPinNeverEnabled ==
  \A d \in Dimmers :
    pin[d] = GPIO_NUM_NC => (~enabled[d] /\ Nodes(dimmers, d) = 0)

\* begin() on an invalid pin returns false and leaves the dimmers, the
\* list, the timer, the GPIOs and the record of the ISR writes as they are
BeginOnInvalidPinKeeps ==
  (BeginReturnsAtOnce /\ pin[last'.d] = GPIO_NUM_NC) =>
    /\ ~last'.ret
    /\ UNCHANGED <<dimmerVars, configVars, engineVars, trace>>

EndDone ==
  /\ pc = "idle"
  /\ last.op = "end"
  /\ last.ret

\* what end() leaves of an enabled dimmer, of the list and of the timer
EndFlushed ==
  EndDone =>
    /\ ~enabled[last.d]
    /\ ~online[last.d]
    /\ delay[last.d] = UINT16_MAX
    /\ Nodes(dimmers, last.d) = 0
    /\ gpio[last.d] = LOW
    /\ (dimmers = << >>) <=> (fire_timer = "null")

\* end() on a dimmer that is not enabled returns at once and leaves the
\* dimmers, the list, the timer and the GPIOs as they are
EndOnDisabledKeeps ==
  (pc = "idle" /\ pc' = "idle" /\ ops' # ops /\ last'.op = "end") =>
    /\ ~enabled[last'.d]
    /\ ~last'.ret
    /\ UNCHANGED <<dimmerVars, configVars, engineVars, trace>>

\* C14: end() on an enabled thyristor dimmer clears enabled and online, sets
\* the latched firing delay to UINT16_MAX, removes the node of the dimmer
\* from the registry, drives its GPIO low and deletes the fire timer when
\* the list became empty; end() on a dimmer that is not enabled changes
\* nothing.
EndFlushesAndIsIdempotent ==
  []EndFlushed /\ [][EndOnDisabledKeeps]_vars

\* C14 witness: end() has returned on a dimmer with a non-zero firing ratio
\* whose GPIO the alarm ISR had raised in this half-cycle: the GPIO is low
\* and the delay is the sentinel
EndedWhileConducting ==
  /\ EndDone
  /\ dutyCycleFire[last.d] # Zero
  /\ \E i \in 1..Len(trace[last.d]) :
        trace[last.d][i].by = "alarm" /\ trace[last.d][i].level = HIGH
  /\ gpio[last.d] = LOW
  /\ delay[last.d] = UINT16_MAX

\* the firing delay with the low-end clamp to PHASE_DELAY_MIN_US
ClampedDelayOf(on, f, sp) ==
  IF ~on \/ sp = 0 \/ f = Zero THEN UINT16_MAX
  ELSE IF f = One THEN 0
  ELSE LET dl == (sp * (f.d - f.n)) \div f.d
       IN  IF dl < PHASE_DELAY_MIN_US THEN PHASE_DELAY_MIN_US ELSE dl

\* C15: the apply of the thyristor backend stores as firing delay UINT16_MAX
\* when duty_cycle_fire is 0, the dimmer is offline or the semi-period is 0,
\* 0 when duty_cycle_fire is 1, and otherwise
\* (1 - duty_cycle_fire) * semi_period clamped on the low end to 90 us.
ApplyClampsDelay ==
  [][(IsSetDutyCycle /\ last'.applied) =>
       delay'[last'.d] =
         ClampedDelayOf(online[last'.d], dutyCycleFire'[last'.d], semiPeriod)]_vars

\* C16: when the zero-cross ISR finishes after the zero crossing and past
\* the earliest latched alarm (timing miss), no dimmer is fired by the alarm
\* ISR during that half-cycle, whatever alarm was left armed from earlier.
MissedHalfCycleSkipped ==
  missed =>
    \A d \in Dimmers : \A i \in 1..Len(trace[d]) : trace[d][i].by # "alarm"

\* dimmer d has been latched by the zero-cross ISR of this half-cycle with a
\* delay strictly between 0 and UINT16_MAX, and no foreground write reached
\* it since
LatchedToFire(d) ==
  /\ d \in Listed(dimmers)
  /\ trace[d] # << >>
  /\ ~touched[d]
  /\ delay[d] > 0
  /\ delay[d] < UINT16_MAX

\* the timer counts at which the alarm ISR raised the GPIO of d in this
\* half-cycle
FiredAt(d) ==
  {trace[d][i].at : i \in {j \in 1..Len(trace[d]) : trace[d][j].by = "alarm"}}

\* C17: under a periodic zero-cross stream handled on the normal path every
\* registered dimmer with latched delay D, 0 < D < UINT16_MAX, gets its
\* rising edge when the timer reaches D, or 90 if D < 90: no rising edge at
\* another count, and one by the end of every half-cycle, for every such D
\* up to the semi-period.
FiresAtDelayEveryHalfCycle ==
  \A d \in Dimmers :
    LatchedToFire(d) =>
      /\ FiredAt(d) \subseteq {LatchOf(delay[d])}
      /\ (\A dz \in DelaysUntilZero \ {0} : HalfCycleOver(dz)) => FiredAt(d) # {}

\* the number of GPIO writes of the alarm ISR recorded for d
AlarmWrites(tr, d) ==
  Cardinality({i \in 1..Len(tr[d]) : tr[d][i].by = "alarm"})

\* C18: the alarm ISR is guarded against re-entry: while an invocation has
\* not returned, another invocation returns at once: it does not walk the
\* list (no alarm_count is consumed), writes no GPIO and arms no alarm.
NestedAlarmReturnsAtOnce ==
  [][inside # << >> =>
       \A d \in Dimmers : AlarmWrites(trace', d) <= AlarmWrites(trace, d)]_vars

\* the spinlock is held exactly inside the critical sections of
\* _registerDimmer and _unregisterDimmer
HeldInCriticalSection ==
  (spinlock = "held") <=> (pc \in {"begin_locked", "end_locked"})

\* a step that adds or removes (and frees) a node is taken with the
\* spinlock held, and releases it
MutationUnderLock ==
  Len(dimmers') # Len(dimmers) => (spinlock = "held" /\ spinlock' = "free")

\* a step of an ISR (it walks the list: it writes a GPIO, an alarm_count or
\* the record of its writes) is taken with the spinlock free for it to
\* take, and leaves it released
WalkUnderLock ==
  (trace' # trace \/ (Len(dimmers') = Len(dimmers) /\ dimmers' # dimmers)) =>
    (spinlock = "free" /\ spinlock' = "free")

FireFollowsDuty ==
  IsSetDutyCycle =>
    LET d == last'.d
    IN  /\ Le(Zero, dutyCycleFire'[d])
        /\ Le(dutyCycleFire'[d], One)
        /\ Le(dutyCycle[d], dutyCycle'[d]) => Le(dutyCycleFire[d], dutyCycleFire'[d])

\* C20: for a fixed power-LUT state, remap window and semi-period,
\* duty_cycle_fire stays in [0, 1] and is monotone non-decreasing in
\* duty_cycle, with the LUT enabled across all 4096 12-bit duty levels, the
\* jumps to the special values at mapped == 0 and mapped == 1 included.
FireMonotone ==
  [][FireFollowsDuty]_vars

\* C20 witness: with the LUT enabled and a known semi-period the duty cycle
\* has been raised through every level up to 1, where the firing ratio
\* jumps to 1
RaisedToFullThroughLUT ==
  /\ last.op = "setDutyCycle"
  /\ powerLUTEnabled[Subject]
  /\ semiPeriod > 0
  /\ dutyCycle[Subject] = One
  /\ dutyCycleMax[Subject] = One
  /\ dutyCycleFire[Subject] = One
  /\ ops = 0

\* a setDutyCycle step made with the power LUT enabled and a semi-period
\* known stores 0 at a mapped value of 0 and 1 at a mapped value of 1
LUTEndpointsStored ==
  (IsSetDutyCycle /\ powerLUTEnabled[last'.d] /\ semiPeriod > 0) =>
    LET d      == last'.d
        mapped == DutyCycleMapped(dutyCycleMin[d], dutyCycle'[d], dutyCycleMax[d])
    IN  /\ FEq(mapped, Zero) => dutyCycleFire'[d] = Zero
        /\ FEq(mapped, One) => dutyCycleFire'[d] = One

\* between two calls an online dimmer whose mapped value is 0 or 1 has this
\* very firing ratio, whatever came before
LUTEndpointsHeld ==
  \A d \in Dimmers :
    (pc = "idle" /\ online[d] /\ powerLUTEnabled[d] /\ semiPeriod > 0) =>
      /\ FEq(GetDutyCycleMapped(d), Zero) => dutyCycleFire[d] = Zero
      /\ FEq(GetDutyCycleMapped(d), One) => dutyCycleFire[d] = One

\* C21: with the power LUT enabled and a non-zero semi-period, a duty cycle
\* whose mapped value is 0 yields duty_cycle_fire == 0 and a duty cycle whose
\* mapped value is 1 yields duty_cycle_fire == 1.
LUTEndpoints ==
  []LUTEndpointsHeld /\ [][LUTEndpointsStored]_vars

\* C21 witness: with the LUT enabled and a semi-period known, setDutyCycle
\* has stored a duty cycle below 1 that the remap window maps to 1, and the
\* firing ratio is 1
MappedToFullThroughLUT ==
  /\ pc = "idle"
  /\ last.op = "setDutyCycle"
  /\ powerLUTEnabled[last.d] /\ semiPeriod > 0
  /\ online[last.d]
  /\ Lt(dutyCycle[last.d], One)
  /\ FEq(GetDutyCycleMapped(last.d), One)
  /\ dutyCycleFire[last.d] = One

\* scenario S2: setDutyCycle(0.5) on an online dimmer at semi-period 10000
\* with the power LUT enabled and the default limit and remap window
ScenarioS2 ==
  /\ IsSetDutyCycle
  /\ last'.x = R(1, 2)
  /\ semiPeriod = 10000
  /\ powerLUTEnabled[last'.d]
  /\ IsOnline(last'.d)
  /\ dutyCycleLimit[last'.d] = One
  /\ dutyCycleMin[last'.d] = Zero
  /\ dutyCycleMax[last'.d] = One

\* a firing ratio within 0.005 of f0 (in thousandths) and a delay within
\* 50 us of dl0
AboutS2(f, dl, f0, dl0) ==
  /\ Le(R(f0 - 5, 1000), f) /\ Le(f, R(f0 + 5, 1000))
  /\ dl0 - 50 <= dl /\ dl <= dl0 + 50

\* C22 as stated: scenario S2 gives a firing ratio of about 0.598 and a
\* firing delay of about 4020 us
ScenarioS2AsStated ==
  [][ScenarioS2 => AboutS2(dutyCycleFire'[last'.d], delay'[last'.d], 598, 4020)]_vars

\* C22: at semi-period 10000 us with the power LUT enabled and the default
\* remap (min 0, max 1, limit 1), setDutyCycle(0.5) gives duty_cycle_fire of
\* about 0.5 and a firing delay of about 5000 us as obtained from the LUT.
ScenarioS2FromTable ==
  [][ScenarioS2 =>
       /\ AboutS2(dutyCycleFire'[last'.d], delay'[last'.d], 500, 5000)
       /\ dutyCycleFire'[last'.d] =
            Sub(One, R(LookupFiringDelay(R(1, 2), semiPeriod), semiPeriod))]_vars

\* C22 witness: scenario S2 has been run on an online dimmer, which now
\* fires at the table's delay
ScenarioS2Run ==
  /\ pc = "idle"
  /\ last.op = "setDutyCycle" /\ last.x = R(1, 2) /\ last.ret
  /\ semiPeriod = 10000
  /\ powerLUTEnabled[last.d]
  /\ dutyCycleLimit[last.d] = One
  /\ dutyCycleMin[last.d] = Zero
  /\ dutyCycleMax[last.d] = One
  /\ delay[last.d] = LookupFiringDelay(R(1, 2), 10000)

\* the table index of the 12-bit level of the dimmer's duty cycle
LevelIndex ==
  (Level * FIRING_DELAYS_SCALE + (FIRING_DELAYS_SCALE \div 2)) \div 65536

\* C23: the embedded firing-delay table has 200 entries with T[0] == 0xFFFF
\* and T[199] == 0x0000 and is monotonically non-increasing:
\* T[i] >= T[i+1] for every i in 0..198 (the sequence is indexed from 1), so
\* that the two entries read for any duty level exist and are ordered.
FiringDelaysTable ==
  /\ LevelIndex + 2 \in DOMAIN FIRING_DELAYS
  /\ FIRING_DELAYS[LevelIndex + 1] >= FIRING_DELAYS[LevelIndex + 2]
  /\ FIRING_DELAYS_LEN = 200
  /\ Len(FIRING_DELAYS) = FIRING_DELAYS_LEN
  /\ FIRING_DELAYS[1] = 65535
  /\ FIRING_DELAYS[FIRING_DELAYS_LEN] = 0
  /\ \A i \in 1..(FIRING_DELAYS_LEN - 1) : FIRING_DELAYS[i] >= FIRING_DELAYS[i + 1]

\* C23 witness: with the LUT enabled, setDutyCycle has looked up a duty
\* cycle in the last interval of the table, between T[198] and T[199]
LastEntriesRead ==
  /\ last.op = "setDutyCycle"
  /\ powerLUTEnabled[Subject] /\ semiPeriod > 0
  /\ dutyCycleMin[Subject] = Zero /\ dutyCycleMax[Subject] = One
  /\ LevelIndex = FIRING_DELAYS_LEN - 2
  /\ Lt(dutyCycleFire[Subject], One)
  /\ Le(R(semiPeriod - ((FIRING_DELAYS[FIRING_DELAYS_LEN - 1] * semiPeriod) \div 65536),
          semiPeriod),
        dutyCycleFire[Subject])

\* a non-negative value rounded to the nearest integer, halves upwards
Round(a) ==
  (2 * a.n + a.d) \div (2 * a.d)

\* the lookup as the specification words it: the duty is rounded to 12 bits
SpecifiedLookup(d, sp) ==
  LET duty16  == Round(Mul(d, R(4095, 1)))
      slot    == duty16 * (199 * 16) + ((199 * 16) \div 2)
      index   == slot \div 65536
      frac    == slot % 65536
      delay16 == FIRING_DELAYS[index + 1]
                   - (((FIRING_DELAYS[index + 1] - FIRING_DELAYS[index + 2]) * frac) \div 65536)
  IN  (delay16 * sp) \div 65536

\* the mapped value of the duty cycle that a setDutyCycle step stores
MappedStored ==
  DutyCycleMapped(dutyCycleMin[last'.d], dutyCycle'[last'.d], dutyCycleMax[last'.d])

\* a setDutyCycle step that consults the table
IsLookup ==
  /\ IsSetDutyCycle
  /\ powerLUTEnabled[last'.d]
  /\ semiPeriod > 0
  /\ MappedStored \notin {Zero, One}

\* C24: for every duty d in [0, 1] and every semi-period the firing-delay
\* lookup returns the result of the specified steps (duty16 = round(d * 0xFFF),
\* slot = duty16 * SCALE + (SCALE >> 1), index = slot >> 16, frac = slot & 0xFFFF,
\* delay16 = T[index] - (((T[index] - T[index+1]) * frac) >> 16),
\* result = (delay16 * semi_period) >> 16), seen on the looked-up duty and on
\* the firing ratio that setDutyCycle derives from it.
LookupAsSpecified ==
  [][IsLookup =>
       LET d  == last'.d
           m  == MappedStored
       IN  /\ LookupFiringDelay(m, semiPeriod) = SpecifiedLookup(m, semiPeriod)
           /\ dutyCycleFire'[d] = Sub(One, R(SpecifiedLookup(m, semiPeriod), semiPeriod))]_vars

\* the firing ratio and the firing delay that the configuration of dimmer d
\* calls for once a setter has returned
InSyncAfter(d) ==
  LET f == Fire(powerLUTEnabled[d],
                DutyCycleMapped(dutyCycleMin'[d], dutyCycle'[d], dutyCycleMax'[d]),
                semiPeriod)
  IN  /\ dutyCycleFire'[d] = f
      /\ delay'[d] \in ThyristorApply(TRUE, semiPeriod, f)

\* setDutyCycleLimit(l) stores l clamped to [0, 1], keeps the duty cycle
\* within it, and leaves an online dimmer re-applied
LimitReapplied ==
  \A l \in Floats :
    SetDutyCycleLimit(Subject, l) =>
      /\ dutyCycleLimit'[Subject] = Clamped(l, One)
      /\ dutyCycle'[Subject] = Clamped(dutyCycle[Subject], dutyCycleLimit'[Subject])
      /\ IsOnline(Subject) => InSyncAfter(Subject)

\* setDutyCycleMin(m) stores m clamped to [0, max] and leaves an online
\* dimmer re-applied
MinReapplied ==
  \A m \in Floats :
    SetDutyCycleMin(Subject, m) =>
      /\ dutyCycleMin'[Subject] = Clamped(m, dutyCycleMax[Subject])
      /\ dutyCycle'[Subject] = dutyCycle[Subject]
      /\ IsOnline(Subject) => InSyncAfter(Subject)

\* setDutyCycleMax(M) stores M clamped to [min, 1] and leaves an online
\* dimmer re-applied
MaxReapplied ==
  \A m \in Floats :
    SetDutyCycleMax(Subject, m) =>
      /\ dutyCycleMax'[Subject] =
           (IF Lt(m, dutyCycleMin[Subject]) THEN dutyCycleMin[Subject] ELSE Clamped(m, One))
      /\ dutyCycle'[Subject] = dutyCycle[Subject]
      /\ IsOnline(Subject) => InSyncAfter(Subject)

\* C25: setDutyCycleLimit(l), setDutyCycleMin(m) and setDutyCycleMax(M) each
\* clamp their argument (limit to [0,1], min to [0,max], max to [min,1]) and
\* then re-apply the duty cycle: after each of the three calls on an online
\* dimmer, duty_cycle_fire and the backend output reflect the new
\* configuration.
RemapSettersReapply ==
  [][LimitReapplied /\ MinReapplied /\ MaxReapplied]_vars

\* calculateHarmonics has just returned from a call on an array of at least
\* one entry, and no other call has been entered since
HarmonicsDone ==
  /\ pc = "idle"
  /\ last.op = "calculateHarmonics"
  /\ last.out.n >= 1

AllEntries(array, v) ==
  \A i \in DOMAIN array : array[i] = v

AnchorOnly(array) ==
  \A i \in DOMAIN array : array[i] = (IF i = 1 THEN R(100, 1) ELSE Zero)

\* at both ends of the range every backend writes the same array
HarmonicsAtEnds ==
  HarmonicsDone =>
    LET f == GetDutyCycleFire(last.d)
    IN  /\ FEq(f, Zero) => (last.ret /\ AllEntries(last.out.after, Zero))
        /\ FEq(f, One) => (last.ret /\ AnchorOnly(last.out.after))

\* C26 as stated: calculateHarmonics on an array of n >= 1 entries writes all
\* zeros when duty_cycle_fire == 0 (or the dimmer is offline), writes
\* H1 = 100 and zeros elsewhere when duty_cycle_fire == 1, and writes
\* H1 = 100 when 0 < duty_cycle_fire < 1, for every backend.
HarmonicsAnchored ==
  /\ HarmonicsAtEnds
  /\ HarmonicsDone =>
       LET f == GetDutyCycleFire(last.d)
       IN  (Lt(Zero, f) /\ Lt(f, One)) => last.out.after[1] = R(100, 1)

\* C26: calculateHarmonics on an array of n >= 1 entries writes all zeros
\* when duty_cycle_fire == 0 (or the dimmer is offline) and writes H1 = 100
\* and zeros elsewhere when duty_cycle_fire == 1, for every backend; when
\* 0 < duty_cycle_fire < 1 it writes H1 = 100 for the phase-control backends
\* (thyristor, PWM, I2C DAC) unless the fundamental is too small to be
\* computed (I1_rms <= 0.001, a firing ratio below 1/128), where it fails and
\* leaves every entry NaN, and it writes all zeros for the virtual and the
\* cycle-stealing backends.
HarmonicsByBackend ==
  /\ HarmonicsAtEnds
  /\ HarmonicsDone =>
       LET f == GetDutyCycleFire(last.d)
       IN  (Lt(Zero, f) /\ Lt(f, One)) =>
             IF last.out.backend \in PhaseControlBackends
               THEN \/ last.ret /\ last.out.after[1] = R(100, 1)
                    \/ /\ ~last.ret
                       /\ AllEntries(last.out.after, NaN)
                       /\ Lt(f, R(1, 128))
               ELSE last.ret /\ AllEntries(last.out.after, Zero)

\* C26 witness: a thyristor dimmer conducting half of each half-cycle has
\* written H1 = 100 and the harmonics that follow into an array of three
HarmonicsOfHalfPower ==
  /\ HarmonicsDone
  /\ last.out.backend = "thyristor"
  /\ last.out.n = MaxHarmonics
  /\ GetDutyCycleFire(last.d) = R(1, 2)
  /\ last.ret
  /\ last.out.after[1] = R(100, 1)
  /\ last.out.after[2] = Harmonic(3)

\* calculateMetrics has just returned
MetricsDone ==
  pc = "idle" /\ last.op = "calculateMetrics"

\* the call was made with a grid voltage <= 0, a load resistance <= 0, or on
\* a dimmer that is not enabled
MetricsRefused ==
  \/ Le(last.out.gridVoltage, Zero)
  \/ Le(last.out.loadResistance, Zero)
  \/ ~enabled[last.d]

\* the result of calculateMetrics as the phase-control formulas give it for
\* the conduction duty the dimmer holds
MetricsAsComputed ==
  LET V == last.out.gridVoltage
      Rl == last.out.loadResistance
      m == last.out.after
      f == dutyCycleFire[last.d]
  IN  IF MetricsRefused
        THEN ~last.ret /\ m = last.out.before
        ELSE /\ last.ret
             /\ FEq(f, Zero) =>
                  /\ m.power = Zero /\ m.apparentPower = Zero
                  /\ m.current = Zero /\ m.voltage = Zero
                  /\ IsNaN(m.powerFactor) /\ IsNaN(m.thdi)
             /\ FEq(f, One) =>
                  /\ FEq(m.power, Quot(Mul(V, V), Rl))
                  /\ FEq(m.apparentPower, Quot(Mul(V, V), Rl))
                  /\ FEq(m.current, Quot(V, Rl))
                  /\ FEq(m.voltage, V)
                  /\ FEq(m.powerFactor, One)
                  /\ FEq(m.thdi, Zero)
             /\ (Lt(Zero, f) /\ Lt(f, One)) =>
                  FEq(m.power, Mul(f, Quot(Mul(V, V), Rl)))

ChannelWritten ==
  /\ pc = "idle"
  /\ last.op \in {"setDutyCycle", "setOnline", "begin", "end"}
  /\ last.applied

\* whenever the online flag is false, both backends write 0
OfflineWritesZero ==
  ChannelWritten => (~last.out.online => last.out.duty = 0)

\* C28: the PWM backend's apply writes
\* round(duty_cycle_fire * (2^resolution - 1)) to the channel when the
\* dimmer is online, and both the PWM and the I2C DAC backends write 0
\* whenever the dimmer's online flag is false.
ChannelWritesRounded ==
  /\ OfflineWritesZero
  /\ ChannelWritten =>
       ((last.out.backend = "pwm" /\ last.out.online) =>
          last.out.duty =
            Round(Mul(last.out.fire, R(2 ^ last.out.resolution - 1, 1))))

\* what the code does instead: the product is truncated
ChannelWritesTruncated ==
  ChannelWritten =>
    (last.out.online =>
       last.out.duty = Trunc(Mul(last.out.fire, R(2 ^ last.out.resolution - 1, 1))))

\* both backends have written 0 with the online flag off
ZeroWrittenOffline ==
  /\ ChannelWritten
  /\ ~last.out.online
  /\ last.out.backend = "dfrobot"
  /\ last.out.duty = 0

\* the windows of window_size consecutive half-cycles over which dimmer d
\* was held online at a constant duty, by their first half-cycle
ConstantDutyWindows(d) ==
  {i \in 1..(Len(trace[d]) - window_size + 1) :
     \A j \in i..(i + window_size - 1) :
       trace[d][j].on /\ trace[d][j].duty = trace[d][i].duty}

\* the half-cycles of the window starting at i in which the load was
\* switched on
Conducting(d, i) ==
  {j \in i..(i + window_size - 1) : trace[d][j].level = HIGH}

\* C29: for a cycle-stealing dimmer held online at a constant duty, in every
\* window of W = 20 consecutive half-cycles (alarm ISR invocations) the load
\* is switched on for exactly round(duty * 20) half-cycles.
WindowOnCount ==
  \A d \in Dimmers : \A i \in ConstantDutyWindows(d) :
    Cardinality(Conducting(d, i)) = Round(Mul(trace[d][i].duty, R(window_size, 1)))

\* C30: for a cycle-stealing dimmer held online at a constant duty, within
\* every window of 20 half-cycles the conducting half-cycles are balanced
\* between odd and even half-cycles (the two counts differ by at most one),
\* so that the DC component averages to zero.
WindowBalanced ==
  \A d \in Dimmers : \A i \in ConstantDutyWindows(d) :
    LET odd  == Cardinality({j \in Conducting(d, i) : j % 2 = 1})
        even == Cardinality({j \in Conducting(d, i) : j % 2 = 0})
    IN  odd - even \in {-1, 0, 1}

\* a full window has gone by at a constant duty strictly between 0 and 1
WindowSeen ==
  \E d \in Dimmers : \E i \in ConstantDutyWindows(d) :
    Lt(Zero, trace[d][i].duty) /\ Lt(trace[d][i].duty, One)

\* at both ends of the range the load is on in none or in all of the
\* half-cycles of a window
WindowAtEnds ==
  \A d \in Dimmers : \A i \in ConstantDutyWindows(d) :
    /\ trace[d][i].duty = Zero => Conducting(d, i) = {}
    /\ trace[d][i].duty = One => Cardinality(Conducting(d, i)) = window_size

\* the GPIO writes of the alarm ISR in this half-cycle, as pairs of a dimmer
\* and a rank in its trace
AlarmWritesOf ==
  UNION {{<<d, i>> : i \in {j \in DOMAIN trace[d] : trace[d][j].by = "alarm"}} :
           d \in Dimmers}

\* every LOW an ISR writes in a half-cycle is written by the zero-cross ISR
\* invocation that opens it
FallingInZeroCross ==
  \A d \in Dimmers : \A i \in DOMAIN trace[d] :
    trace[d][i].level = LOW => (trace[d][i].by = "zc" /\ i = 1)

\* write a is made before write b: at an earlier timer count, or in the
\* same walk of the list at a node of lower rank
WrittenBefore(a, b) ==
  \/ a.at < b.at
  \/ a.at = b.at /\ a.rank < b.rank

\* C31 as stated: with several thyristor dimmers registered, in every
\* half-cycle all falling edges are emitted inside the same zero-cross ISR
\* invocation, and the rising edges that follow occur in non-decreasing
\* order of the dimmers' latched delays.
EdgesInDelayOrder ==
  /\ FallingInZeroCross
  /\ \A v, w \in AlarmWritesOf :
       LET a == trace[v[1]][v[2]]
           b == trace[w[1]][w[2]]
       IN  (Rising(a) /\ Rising(b) /\ a.alarm_count < b.alarm_count) => WrittenBefore(a, b)

\* C31: with several thyristor dimmers registered, in every half-cycle all
\* falling edges are emitted inside the same zero-cross ISR invocation, and
\* the rising edges that follow occur at non-decreasing timer counts in the
\* order of the dimmers' latched delays; the dimmers that one walk of the
\* alarm ISR finds due together are raised in registry order.
EdgesInTimerOrder ==
  /\ FallingInZeroCross
  /\ \A v, w \in AlarmWritesOf :
       LET a == trace[v[1]][v[2]]
           b == trace[w[1]][w[2]]
       IN  a.alarm_count < b.alarm_count => a.at <= b.at

\* C31 witness: two dimmers lowered by the same zero-cross ISR have been
\* raised by the alarm ISR at two timer counts, the shorter delay first
RaisedOneAfterTheOther ==
  \E v, w \in AlarmWritesOf :
    LET a == trace[v[1]][v[2]]
        b == trace[w[1]][w[2]]
    IN  /\ v[1] # w[1]
        /\ Rising(a) /\ Rising(b)
        /\ trace[v[1]][1].by = "zc" /\ trace[v[1]][1].level = LOW
        /\ trace[w[1]][1].by = "zc" /\ trace[w[1]][1].level = LOW
        /\ a.alarm_count < b.alarm_count
        /\ a.at < b.at

(***************************************************************************)
(* Hardware driver failures of the PWM and DFRobot dimmers                 *)
(***************************************************************************)

\* the last call met a driver failure: ledcAttach or ledcWrite(0) failed in begin(),
\* or the write of _apply failed in begin(), setDutyCycle() or setOnline()
AttachFailed ==
  /\ pc = "idle"
  /\ last.op = "begin"
  /\ last.out # << >>
  /\ ~last.applied

WriteFailed ==
  /\ pc = "idle"
  /\ last.op \in {"begin", "setDutyCycle", "setOnline"}
  /\ last.applied
  /\ ~last.out.ok

DriverFailed ==
  AttachFailed \/ WriteFailed

\* the step is a setDutyCycle() call on the dimmer of the last call
NextSetDutyCycle ==
  /\ last'.op = "setDutyCycle"
  /\ last'.d = last.d
  /\ UNCHANGED <<enabled, online>>

\* C32: a driver failure during begin() or apply() is reported as a false return
\* value, leaves the dimmer enabled, and the setDutyCycle() that follows on a dimmer
\* whose online flag is set calls apply again
DriverFailureKeepsEnabled ==
  /\ [](DriverFailed => (~last.ret /\ enabled[last.d]))
  /\ [][(DriverFailed /\ online[last.d] /\ NextSetDutyCycle) => last'.applied]_vars

\* the part of C32 about apply(): a failed write returns false, leaves the dimmer
\* enabled unless the call is end(), and the next setDutyCycle() applies again
WriteFailureKeepsEnabled ==
  /\ [](WriteFailed => (~last.ret /\ enabled[last.d]))
  /\ [][(WriteFailed /\ online[last.d] /\ NextSetDutyCycle) => last'.applied]_vars

AttachFailureSeen ==
  AttachFailed /\ online[last.d] /\ ~enabled[last.d]

(***************************************************************************)
(* The list walk of the zero-cross ISR                                     *)
(***************************************************************************)

\* what the walk has to latch for a dimmer whose firing delay is dl
WalkAlarmCount(dl) ==
  IF dl = 0 \/ dl >= UINT16_MAX
    THEN UINT16_MAX
    ELSE IF dl > PHASE_DELAY_MIN_US THEN dl ELSE PHASE_DELAY_MIN_US

\* the step is a zero-cross interrupt served on a live timer: every registered
\* dimmer is written with the level and the alarm_count of the claim
WalkPerNode ==
  \A d \in Listed(dimmers) :
    /\ trace'[d] # << >>
    /\ trace'[d][1].by = "zc"
    /\ trace'[d][1].level = (IF delay[d] # 0 THEN LOW ELSE HIGH)
    /\ trace'[d][1].alarm_count = WalkAlarmCount(delay[d])

\* the minimum non-sentinel alarm_count over all nodes, UINT16_MAX if none
WalkMinimum ==
  Min({UINT16_MAX} \cup
      {WalkAlarmCount(delay[dimmers[i].dimmer]) : i \in 1..Len(dimmers)})

\* the value carried out of the walk is the one the ISR goes on with: armed as
\* the alarm before the zero crossing, compared with the count after it
WalkCarried(dz, e) ==
  /\ e < dz =>
       /\ alarm' = WalkMinimum
       /\ \A i \in 1..Len(dimmers) :
            /\ dimmers'[i].alarm_count = WalkAlarmCount(delay[dimmers[i].dimmer])
            /\ gpio'[dimmers[i].dimmer] = trace'[dimmers[i].dimmer][1].level
  /\ (e >= dz /\ e - dz > WalkMinimum) =>
       /\ alarm' = alarm
       /\ \A d \in Listed(dimmers) : Len(trace'[d]) = 1
  /\ (e >= dz /\ e - dz <= WalkMinimum) =>
       \A d \in Listed(dimmers) :
         (Len(trace'[d]) > 1) = (WalkAlarmCount(delay[d]) # UINT16_MAX
                                   /\ WalkAlarmCount(delay[d]) <= e - dz + e)

\* C33: in the zero-cross ISR, for every registered dimmer a non-zero delay
\* drives the GPIO low and latches max(delay, PHASE_DELAY_MIN_US) (UINT16_MAX
\* for the delay UINT16_MAX), a zero delay drives the GPIO high and latches
\* UINT16_MAX, and the alarm value carried out of the walk is the minimum
\* non-sentinel alarm_count over all nodes
ZeroCrossWalk ==
  [][\A dz \in DelaysUntilZero, e \in Elapsed :
       (fire_timer = "live" /\ OnZeroCross(dz, e)) =>
         (WalkPerNode /\ WalkCarried(dz, e))]_vars

\* C33 witness: a walk over two dimmers has latched the clamped minimum for
\* one, kept the other high, and armed the alarm at the minimum
WalkedTwoDimmers ==
  \E a, b \in Dimmers :
    /\ a # b
    /\ Len(dimmers) = 2
    /\ trace[a] # << >> /\ trace[b] # << >>
    /\ Len(trace[a]) = 1 /\ Len(trace[b]) = 1
    /\ trace[a][1].by = "zc" /\ trace[a][1].level = LOW
    /\ trace[a][1].alarm_count = PHASE_DELAY_MIN_US
    /\ trace[b][1].by = "zc" /\ trace[b][1].level = HIGH
    /\ alarm = PHASE_DELAY_MIN_US

(***************************************************************************)
(* The alarm ISR on return                                                 *)
(***************************************************************************)

\* _fireTimerISR has run on the list `list0`, entered at the timer count
\* `now0`, and has returned: `before` is the alarm that is armed when the ISR
\* arms none (none after the one-shot alarm that raised the interrupt)
AlarmISRReturned(list0, now0, lat, before) ==
  LET lastRead  == FireLoop(list0, gpio, trace, now0, lat).now
      remaining == {dimmers'[i].alarm_count : i \in 1..Len(dimmers')} \ {UINT16_MAX}
  IN  /\ Len(dimmers') = Len(list0)
      /\ \A i \in 1..Len(list0) :
           (list0[i].alarm_count # UINT16_MAX /\ list0[i].alarm_count <= lastRead) =>
             /\ gpio'[list0[i].dimmer] = HIGH
             /\ dimmers'[i].alarm_count = UINT16_MAX
      /\ remaining # {} => alarm' = Min(remaining)
      /\ remaining = {} => alarm' = before

\* the zero-cross ISR calls _fireTimerISR directly when the zero crossing is
\* passed and the first alarm is not
DirectCall(dz, e) ==
  /\ fire_timer = "live"
  /\ e >= dz
  /\ e - dz <= ZCNextAlarm(dimmers)
  /\ OnZeroCross(dz, e)

\* C34: when the alarm ISR returns, every node whose alarm_count was not the
\* sentinel and was <= the last timer value read has its GPIO raised and its
\* alarm_count set to UINT16_MAX; if a node still has a non-sentinel
\* alarm_count the alarm is armed at the minimum of those values, and if none
\* has, the ISR arms no alarm
AlarmISROnReturn ==
  [][/\ \A e \in Elapsed :
          FireTimerISR(e) => AlarmISRReturned(dimmers, alarm + e, e, NoAlarm)
     /\ \A dz \in DelaysUntilZero, e \in Elapsed :
          DirectCall(dz, e) => AlarmISRReturned(ZCWalk(dimmers), e - dz, e, alarm)]_vars

\* C34 witness: the alarm ISR has raised one dimmer and armed the alarm at the
\* alarm_count of the other, which is still low
AlarmRearmed ==
  \E i, j \in 1..Len(dimmers) :
    LET a == dimmers[i].dimmer
        b == dimmers[j].dimmer
    IN  /\ a # b
        /\ Len(trace[a]) = 2 /\ trace[a][2].by = "alarm"
        /\ dimmers[i].alarm_count = UINT16_MAX /\ gpio[a] = HIGH
        /\ Len(trace[b]) = 1 /\ gpio[b] = LOW
        /\ dimmers[j].alarm_count # UINT16_MAX
        /\ alarm = dimmers[j].alarm_count

(***************************************************************************)
(* The drain loop of the alarm ISR                                         *)
(***************************************************************************)

\* the nodes of list0 that the loop has fired
FiredBy(list0, r) ==
  {i \in 1..Len(list0) :
     list0[i].alarm_count # UINT16_MAX /\ r.list[i].alarm_count = UINT16_MAX}

\* the do-while loop entered on list0 at the count now0: at most N + 1
\* iterations, and every iteration but the first fires a node
DrainBounded(list0, now0, lat) ==
  LET r == FireLoop(list0, gpio, trace, now0, lat)
  IN  /\ r.passes <= Len(list0) + 1
      /\ Cardinality(FiredBy(list0, r)) >= r.passes - 1
      /\ dimmers' = r.list

\* C35: the drain loop of the alarm ISR terminates: with N registered dimmers
\* it runs at most N + 1 iterations, every iteration that is followed by
\* another one leaving a node that the next iteration fires
DrainLoopTerminates ==
  [][/\ \A e \in Elapsed :
          FireTimerISR(e) => DrainBounded(dimmers, alarm + e, e)
     /\ \A dz \in DelaysUntilZero, e \in Elapsed :
          DirectCall(dz, e) => DrainBounded(ZCWalk(dimmers), e - dz, e)]_vars

\* C35 witness: with one dimmer registered the loop has run twice: the first
\* iteration, entered before the alarm_count, fired nothing and the second
\* one, after the refresh of the count, raised the dimmer
DrainedInTwoPasses ==
  /\ Len(dimmers) = 1
  /\ LET d == dimmers[1].dimmer
     IN  /\ Len(trace[d]) = 2
         /\ trace[d][2].by = "alarm"
         /\ trace[d][2].at > trace[d][2].alarm_count
         /\ trace[d][2].at - trace[d][2].alarm_count < 3000
         /\ trace[d][2].alarm_count = 5000

(***************************************************************************)
(* The zero-cross ISR and the deletion of the fire timer                   *)
(***************************************************************************)

\* C36: the zero-cross ISR never operates on a fire timer that has been
\* deleted: under any interleaving with a foreground end() that unregisters
\* the last dimmer it sees a live timer or the null handle (uaf records an
\* invocation that read the handle of a deleted timer)
ZeroCrossNeverOnDeletedTimer ==
  uaf = FALSE

(***************************************************************************)
(* The periodic alarm of the cycle-stealing dimmers                        *)
(***************************************************************************)

\* C37: for cycle-stealing dimmers, between two calls of begin, end, setOnline
\* and setDutyCycle, a dimmer that is online with a non-zero semi-period has
\* the periodic alarm armed on the existing fire timer, and alarm_set is
\* non-zero only while a timer carrying that alarm exists
PeriodicAlarmArmed ==
  pc = "idle" =>
    /\ \A d \in Dimmers :
         (IsOnline(d) /\ semiPeriod > 0) =>
           (fire_timer = "live" /\ timer_alarm = semiPeriod)
    /\ alarm_set # 0 => (fire_timer = "live" /\ timer_alarm = alarm_set)

(***************************************************************************)
(* The firing delay of a thyristor dimmer that is not online               *)
(***************************************************************************)

\* C38: for a thyristor dimmer, between two calls, whenever isOnline() is
\* false (not enabled, online flag false, or power LUT enabled while the
\* semi-period is 0) the firing delay is the UINT16_MAX sentinel, also after
\* setSemiPeriod and enablePowerLUT calls made after the last setDutyCycle
OfflineDelayIsSentinel ==
  pc = "idle" => \A d \in Dimmers : ~IsOnline(d) => delay[d] = UINT16_MAX

(***************************************************************************)
(* calculateMetrics and getDutyCycleFire()                                 *)
(***************************************************************************)

\* C39: calculateMetrics agrees with getDutyCycleFire(): when it succeeds on
\* a thyristor dimmer that is enabled but not online, for which
\* getDutyCycleFire() returns 0, it reports zero power, current and voltage
MetricsFollowDutyCycleFire ==
  (/\ MetricsDone
   /\ last.out.backend = "thyristor"
   /\ last.ret
   /\ enabled[last.d]
   /\ ~IsOnline(last.d)
   /\ FEq(GetDutyCycleFire(last.d), Zero)) =>
     /\ FEq(last.out.after.power, Zero)
     /\ FEq(last.out.after.current, Zero)
     /\ FEq(last.out.after.voltage, Zero)

(***************************************************************************)
(* The table index and the products of the firing-delay lookup             *)
(***************************************************************************)

\* _lookupFiringDelay on the 12-bit level l: slot and index
LookupSlotOf(l) ==
  l * FIRING_DELAYS_SCALE + (FIRING_DELAYS_SCALE \div 2)

LookupIndexOf(l) ==
  LookupSlotOf(l) \div 65536

\* x * y < 2^32 for x, y in 0..65535, from the product divided by 256
Fits32(x, y) ==
  x * (y \div 256) + ((x * (y % 256)) \div 256) < 2 ^ 24

\* the lookup on the level l stays inside the table and inside 32 bits, for
\* the semi-period sp
LookupInRange(l, sp) ==
  LET slot  == LookupSlotOf(l)
      index == LookupIndexOf(l)
      a     == FIRING_DELAYS[index + 1]
      b     == FIRING_DELAYS[index + 2]
      dl    == a - (((a - b) * (slot % 65536)) \div 65536)
  IN  /\ index \in 0..(FIRING_DELAYS_LEN - 2)
      /\ (index + 1) \in DOMAIN FIRING_DELAYS
      /\ (index + 2) \in DOMAIN FIRING_DELAYS
      /\ l <= 65535 /\ Fits32(l, FIRING_DELAYS_SCALE)
      /\ a >= b
      /\ Fits32(a - b, slot % 65536)
      /\ dl \in 0..65535
      /\ Fits32(dl, sp)

\* C40: for every 12-bit duty level the table index of the firing-delay lookup
\* (slot >> 16 with slot = duty * FIRING_DELAYS_SCALE + FIRING_DELAYS_SCALE / 2)
\* lies in 0..198, so T[index] and T[index + 1] are inside the 200-entry table,
\* and no intermediate product overflows 32 bits, whatever the 16-bit
\* semi-period (the largest one bounds the product of every other)
LookupIndexInTable ==
  \A l \in {Level, IF Level < FIRING_DELAY_MAX THEN Level + 1 ELSE Level} :
    \A sp \in {semiPeriod, UINT16_MAX} : LookupInRange(l, sp)

\* C40 witness: with the LUT enabled and a semi-period known, setDutyCycle has
\* looked up the last level below full power, whose index is the last but one
\* of the table
LookedUpLastSlot ==
  /\ last.op = "setDutyCycle"
  /\ powerLUTEnabled[Subject]
  /\ semiPeriod > 0
  /\ dutyCycleMin[Subject] = Zero
  /\ dutyCycleMax[Subject] = One
  /\ Level = FIRING_DELAY_MAX - 1
  /\ LookupIndexOf(Level) = FIRING_DELAYS_LEN - 2

====
